---- MODULE Spec2Model ----
(***************************************************************************)
(* SmartTransit backend (backend/app.py): the routing and estimation core   *)
(* and the live-bus store.                                                  *)
(*                                                                          *)
(* Units.  Latitudes and longitudes are integers in 1e-4 degree (the        *)
(* catalog gives four decimals: 22.5839 is 225839).  Speeds are km/h.       *)
(* Times reported to one decimal are integers in tenths of a minute;        *)
(* distances reported to two decimals are integers in 0.01 km; unrounded    *)
(* distances are integers in millimetres.                                   *)
(*                                                                          *)
(* The timestamp columns of LiveBusDB (trip_started_at, last_update) are    *)
(* written by the handlers and read by no decision of the code; they are    *)
(* not part of the modelled record.                                         *)
(***************************************************************************)
EXTENDS Integers, Sequences, FiniteSets, TLC

(***************************************************************************)
(* Catalog: BUS_ROUTES and BUS_STOPS, in source order.                      *)
(***************************************************************************)
BUS_ROUTES ==
  << [id |-> "S12", name |-> "S12", from |-> "Howrah Station", to |-> "New Town", via |-> "Salt Lake", fare_min |-> 10, fare_max |-> 35, frequency_min |-> 10],
     [id |-> "AC1", name |-> "AC1", from |-> "Jadavpur", to |-> "Airport", via |-> "EM Bypass", fare_min |-> 25, fare_max |-> 55, frequency_min |-> 15],
     [id |-> "45A", name |-> "45A", from |-> "Garia Station", to |-> "Esplanade", via |-> "Rashbehari", fare_min |-> 8, fare_max |-> 25, frequency_min |-> 8],
     [id |-> "DN9", name |-> "DN9", from |-> "Dunlop", to |-> "Babughat", via |-> "Shyambazar", fare_min |-> 10, fare_max |-> 30, frequency_min |-> 12],
     [id |-> "S9", name |-> "S9", from |-> "Howrah Station", to |-> "Salt Lake Sector V", via |-> "Ultadanga", fare_min |-> 10, fare_max |-> 30, frequency_min |-> 10],
     [id |-> "AC2", name |-> "AC2", from |-> "Garia", to |-> "Karunamoyee", via |-> "Science City", fare_min |-> 25, fare_max |-> 50, frequency_min |-> 20],
     [id |-> "230", name |-> "230", from |-> "Howrah Station", to |-> "Joka", via |-> "Behala", fare_min |-> 8, fare_max |-> 28, frequency_min |-> 10],
     [id |-> "12B", name |-> "12B/1", from |-> "Tollygunge", to |-> "Howrah Station", via |-> "Kalighat", fare_min |-> 8, fare_max |-> 22, frequency_min |-> 7],
     [id |-> "201", name |-> "201", from |-> "Barasat", to |-> "Babughat", via |-> "Dum Dum", fare_min |-> 12, fare_max |-> 35, frequency_min |-> 15],
     [id |-> "AC9", name |-> "AC9", from |-> "Airport", to |-> "Esplanade", via |-> "VIP Road", fare_min |-> 30, fare_max |-> 60, frequency_min |-> 20],
     [id |-> "S32", name |-> "S32", from |-> "Sealdah", to |-> "Dankuni", via |-> "Shyambazar", fare_min |-> 10, fare_max |-> 32, frequency_min |-> 12],
     [id |-> "46A", name |-> "46A", from |-> "Ruby Hospital", to |-> "Howrah Station", via |-> "Park Circus", fare_min |-> 8, fare_max |-> 25, frequency_min |-> 8],
     [id |-> "S5", name |-> "S5", from |-> "Barrackpore", to |-> "Esplanade", via |-> "Baranagar", fare_min |-> 12, fare_max |-> 30, frequency_min |-> 12],
     [id |-> "DN20", name |-> "DN20", from |-> "Dunlop", to |-> "Garia", via |-> "EM Bypass", fare_min |-> 12, fare_max |-> 35, frequency_min |-> 15],
     [id |-> "AC47", name |-> "AC47", from |-> "Howrah Station", to |-> "Garia", via |-> "Moulali", fare_min |-> 25, fare_max |-> 50, frequency_min |-> 15],
     [id |-> "78", name |-> "78", from |-> "Esplanade", to |-> "Barasat", via |-> "Dum Dum", fare_min |-> 10, fare_max |-> 30, frequency_min |-> 10],
     [id |-> "S11", name |-> "S11", from |-> "Howrah", to |-> "Karunamoyee", via |-> "Sealdah", fare_min |-> 10, fare_max |-> 28, frequency_min |-> 12],
     [id |-> "215", name |-> "215", from |-> "Sealdah", to |-> "Airport", via |-> "VIP Road", fare_min |-> 10, fare_max |-> 30, frequency_min |-> 15],
     [id |-> "L230", name |-> "L230", from |-> "Garia", to |-> "Babughat", via |-> "Tollygunge", fare_min |-> 8, fare_max |-> 25, frequency_min |-> 8],
     [id |-> "AC3", name |-> "AC3", from |-> "New Town", to |-> "Esplanade", via |-> "Salt Lake", fare_min |-> 30, fare_max |-> 55, frequency_min |-> 20],
     [id |-> "S41", name |-> "S41", from |-> "Baruipur", to |-> "Howrah", via |-> "Garia", fare_min |-> 12, fare_max |-> 35, frequency_min |-> 15],
     [id |-> "E32", name |-> "E32", from |-> "Barrackpore", to |-> "Garia", via |-> "Ultadanga", fare_min |-> 12, fare_max |-> 35, frequency_min |-> 12],
     [id |-> "MM12", name |-> "MM12", from |-> "Behala", to |-> "BBD Bagh", via |-> "Diamond Harbour Rd", fare_min |-> 8, fare_max |-> 22, frequency_min |-> 10],
     [id |-> "AC20", name |-> "AC20", from |-> "Howrah", to |-> "Airport", via |-> "EM Bypass", fare_min |-> 30, fare_max |-> 65, frequency_min |-> 25],
     [id |-> "S6", name |-> "S6", from |-> "Sealdah", to |-> "Salt Lake", via |-> "CIT Road", fare_min |-> 8, fare_max |-> 20, frequency_min |-> 8],
     [id |-> "34", name |-> "34", from |-> "Esplanade", to |-> "Jadavpur", via |-> "Gariahat", fare_min |-> 8, fare_max |-> 20, frequency_min |-> 7],
     [id |-> "203", name |-> "203", from |-> "Sealdah", to |-> "Sonarpur", via |-> "Garia", fare_min |-> 10, fare_max |-> 28, frequency_min |-> 12],
     [id |-> "AC36", name |-> "AC36", from |-> "Barasat", to |-> "Tollygunge", via |-> "Jessore Road", fare_min |-> 25, fare_max |-> 50, frequency_min |-> 20],
     [id |-> "S15", name |-> "S15", from |-> "Howrah", to |-> "Nicco Park", via |-> "Salt Lake", fare_min |-> 10, fare_max |-> 30, frequency_min |-> 12],
     [id |-> "DN44", name |-> "DN44", from |-> "Dunlop", to |-> "Jadavpur", via |-> "Shyambazar", fare_min |-> 10, fare_max |-> 28, frequency_min |-> 12] >>

BUS_STOPS ==
  << [id |-> "hw", name |-> "Howrah Station", lat |-> 225839, lng |-> 883430, routes |-> << "S12", "230", "12B", "S11", "AC20", "S15", "S41", "AC47" >>],
     [id |-> "es", name |-> "Esplanade", lat |-> 225554, lng |-> 883520, routes |-> << "45A", "AC9", "S5", "78", "AC3", "34" >>],
     [id |-> "sd", name |-> "Sealdah Station", lat |-> 225684, lng |-> 883733, routes |-> << "S32", "S6", "203", "215" >>],
     [id |-> "nt", name |-> "New Town City Centre", lat |-> 225941, lng |-> 884842, routes |-> << "S12", "AC3" >>],
     [id |-> "sl5", name |-> "Salt Lake Sector V", lat |-> 225726, lng |-> 884319, routes |-> << "S9", "S6", "S15" >>],
     [id |-> "ga", name |-> "Garia Station", lat |-> 224590, lng |-> 883852, routes |-> << "45A", "AC2", "DN20", "L230", "203", "S41" >>],
     [id |-> "jp", name |-> "Jadavpur", lat |-> 224987, lng |-> 883692, routes |-> << "AC1", "34", "DN44" >>],
     [id |-> "ap", name |-> "Airport (NSCBI)", lat |-> 226520, lng |-> 884463, routes |-> << "AC1", "AC9", "215", "AC20" >>],
     [id |-> "dl", name |-> "Dunlop", lat |-> 226460, lng |-> 883784, routes |-> << "DN9", "DN20", "DN44" >>],
     [id |-> "bb", name |-> "Babughat", lat |-> 225636, lng |-> 883400, routes |-> << "DN9", "201", "L230" >>],
     [id |-> "br", name |-> "Barasat", lat |-> 227235, lng |-> 884802, routes |-> << "201", "78", "AC36" >>],
     [id |-> "tg", name |-> "Tollygunge", lat |-> 224985, lng |-> 883470, routes |-> << "12B", "AC36" >>],
     [id |-> "km", name |-> "Karunamoyee", lat |-> 225772, lng |-> 884041, routes |-> << "AC2", "S11" >>],
     [id |-> "rb", name |-> "Ruby Hospital", lat |-> 225145, lng |-> 883988, routes |-> << "46A", "DN20" >>],
     [id |-> "sh", name |-> "Shyambazar", lat |-> 225956, lng |-> 883716, routes |-> << "DN9", "S32", "DN44" >>],
     [id |-> "pc", name |-> "Park Circus", lat |-> 225393, lng |-> 883695, routes |-> << "46A" >>],
     [id |-> "sc", name |-> "Science City", lat |-> 225403, lng |-> 883960, routes |-> << "AC2" >>],
     [id |-> "bh", name |-> "Behala", lat |-> 224889, lng |-> 883100, routes |-> << "230", "MM12" >>],
     [id |-> "jk", name |-> "Joka", lat |-> 224487, lng |-> 883095, routes |-> << "230" >>],
     [id |-> "bp", name |-> "Barrackpore", lat |-> 227584, lng |-> 883685, routes |-> << "S5", "E32" >>],
     [id |-> "dd", name |-> "Dum Dum", lat |-> 226224, lng |-> 884218, routes |-> << "201", "78" >>],
     [id |-> "ul", name |-> "Ultadanga", lat |-> 225813, lng |-> 883900, routes |-> << "S9", "E32" >>],
     [id |-> "gh", name |-> "Gariahat", lat |-> 225183, lng |-> 883667, routes |-> << "34" >>],
     [id |-> "kg", name |-> "Kalighat", lat |-> 225240, lng |-> 883440, routes |-> << "12B" >>],
     [id |-> "ml", name |-> "Moulali", lat |-> 225568, lng |-> 883590, routes |-> << "AC47" >>],
     [id |-> "sl1", name |-> "Salt Lake Sector I", lat |-> 225800, lng |-> 884100, routes |-> << "S12", "S6", "AC3" >>],
     [id |-> "bbd", name |-> "BBD Bagh", lat |-> 225728, lng |-> 883488, routes |-> << "MM12" >>],
     [id |-> "dk", name |-> "Dankuni", lat |-> 226784, lng |-> 882931, routes |-> << "S32" >>],
     [id |-> "rh", name |-> "Rashbehari", lat |-> 225175, lng |-> 883544, routes |-> << "45A" >>],
     [id |-> "vip", name |-> "VIP Road", lat |-> 226093, lng |-> 884260, routes |-> << "AC9", "215" >>],
     [id |-> "by", name |-> "Baruipur", lat |-> 223581, lng |-> 884305, routes |-> << "S41" >>],
     [id |-> "dh", name |-> "Diamond Harbour Road", lat |-> 224830, lng |-> 883200, routes |-> << "MM12" >>],
     [id |-> "js", name |-> "Jessore Road", lat |-> 226300, lng |-> 884000, routes |-> << "AC36", "78" >>],
     [id |-> "np", name |-> "Nicco Park", lat |-> 225756, lng |-> 884150, routes |-> << "S15" >>],
     [id |-> "sr", name |-> "Sonarpur", lat |-> 224350, lng |-> 884150, routes |-> << "203" >>],
     [id |-> "ct", name |-> "CIT Road", lat |-> 225650, lng |-> 883850, routes |-> << "S6" >>],
     [id |-> "bn", name |-> "Baranagar", lat |-> 226388, lng |-> 883788, routes |-> << "S5" >>],
     [id |-> "eb", name |-> "EM Bypass Connector", lat |-> 225316, lng |-> 883978, routes |-> << "AC1", "DN20", "AC20" >>],
     [id |-> "ht", name |-> "Hatibagan", lat |-> 225880, lng |-> 883630, routes |-> << "DN9" >>],
     [id |-> "np2", name |-> "New Alipore", lat |-> 225070, lng |-> 883330, routes |-> << "230" >>],
     [id |-> "pb", name |-> "Prince Anwar Shah Road", lat |-> 225050, lng |-> 883780, routes |-> << "AC2", "DN20" >>],
     [id |-> "lk", name |-> "Lake Town", lat |-> 225942, lng |-> 883920, routes |-> << "E32", "215" >>],
     [id |-> "cg", name |-> "College Street", lat |-> 225730, lng |-> 883630, routes |-> << "DN9", "S32" >>],
     [id |-> "wr", name |-> "Wireless Crossing", lat |-> 225260, lng |-> 883910, routes |-> << "46A", "AC2" >>],
     [id |-> "nb", name |-> "Nabanna", lat |-> 225588, lng |-> 883168, routes |-> << "230" >>],
     [id |-> "sg", name |-> "Salt Lake Gate", lat |-> 225760, lng |-> 884050, routes |-> << "S12", "S9", "S6", "S15" >>],
     [id |-> "sb", name |-> "Santoshpur", lat |-> 224770, lng |-> 883930, routes |-> << "203", "E32" >>],
     [id |-> "kr", name |-> "Kona Expressway", lat |-> 225760, lng |-> 883100, routes |-> << "AC20" >>],
     [id |-> "tb", name |-> "Taratala", lat |-> 225050, lng |-> 883180, routes |-> << "230", "MM12" >>],
     [id |-> "gl", name |-> "Golf Green", lat |-> 224970, lng |-> 883920, routes |-> << "DN20", "AC2" >>],
     [id |-> "blr", name |-> "Belur Math", lat |-> 226308, lng |-> 883527, routes |-> << "S5", "S15" >>],
     [id |-> "dks", name |-> "Dakshineswar", lat |-> 226548, lng |-> 883576, routes |-> << "DN9", "S5" >>],
     [id |-> "svb", name |-> "Sovabazar", lat |-> 225881, lng |-> 883598, routes |-> << "DN9", "S32" >>],
     [id |-> "bhw", name |-> "Bhawanipur", lat |-> 225267, lng |-> 883450, routes |-> << "12B", "34" >>],
     [id |-> "hz", name |-> "Hazra", lat |-> 225237, lng |-> 883510, routes |-> << "45A", "34" >>],
     [id |-> "ld", name |-> "Lansdowne", lat |-> 225150, lng |-> 883480, routes |-> << "12B", "AC36" >>],
     [id |-> "blg", name |-> "Ballygunge", lat |-> 225268, lng |-> 883640, routes |-> << "34", "AC1" >>],
     [id |-> "ksb", name |-> "Kasba", lat |-> 225100, lng |-> 883870, routes |-> << "AC2", "203" >>],
     [id |-> "rp", name |-> "Regent Park", lat |-> 225190, lng |-> 883850, routes |-> << "46A", "AC2" >>],
     [id |-> "mk", name |-> "Maniktala", lat |-> 225870, lng |-> 883800, routes |-> << "E32", "DN44" >>],
     [id |-> "blc", name |-> "Belgachia", lat |-> 226020, lng |-> 883700, routes |-> << "DN9", "201" >>],
     [id |-> "csp", name |-> "Cossipore", lat |-> 226100, lng |-> 883680, routes |-> << "S5", "DN44" >>],
     [id |-> "sdp", name |-> "Sodepur", lat |-> 226950, lng |-> 883920, routes |-> << "S5", "201" >>],
     [id |-> "nht", name |-> "Naihati", lat |-> 228930, lng |-> 884220, routes |-> << "E32" >>],
     [id |-> "chn", name |-> "Chandannagar", lat |-> 228672, lng |-> 883630, routes |-> << "S32" >>],
     [id |-> "bly", name |-> "Bally", lat |-> 226500, lng |-> 883400, routes |-> << "12B", "S15" >>],
     [id |-> "llh", name |-> "Liluah", lat |-> 226250, lng |-> 883340, routes |-> << "AC20", "S11" >>],
     [id |-> "belg", name |-> "Belgharia", lat |-> 226650, lng |-> 883880, routes |-> << "201", "78" >>],
     [id |-> "mdg", name |-> "Madhyamgram", lat |-> 226800, lng |-> 884500, routes |-> << "78", "AC36" >>],
     [id |-> "rjh", name |-> "Rajarhat", lat |-> 225990, lng |-> 884750, routes |-> << "AC3", "S12" >>],
     [id |-> "cnp", name |-> "Chinar Park", lat |-> 226020, lng |-> 884550, routes |-> << "AC3", "S9" >>],
     [id |-> "bgti", name |-> "Baguiati", lat |-> 226120, lng |-> 884200, routes |-> << "215", "AC9" >>],
     [id |-> "plb", name |-> "Phoolbagan", lat |-> 225720, lng |-> 883850, routes |-> << "S6", "AC47" >>],
     [id |-> "ent", name |-> "Entally", lat |-> 225630, lng |-> 883700, routes |-> << "AC47", "46A" >>],
     [id |-> "bwb", name |-> "Bow Barracks", lat |-> 225580, lng |-> 883610, routes |-> << "45A", "AC47" >>],
     [id |-> "dmt", name |-> "Dharmatala", lat |-> 225550, lng |-> 883530, routes |-> << "45A", "78", "AC9" >>],
     [id |-> "mdn", name |-> "Maidan", lat |-> 225500, lng |-> 883455, routes |-> << "34", "230", "12B" >>],
     [id |-> "ndn", name |-> "Nandan", lat |-> 225280, lng |-> 883500, routes |-> << "34", "AC36" >>],
     [id |-> "exc", name |-> "Exide Crossing", lat |-> 225320, lng |-> 883530, routes |-> << "45A", "AC1" >>],
     [id |-> "rbs", name |-> "Rabindra Sadan", lat |-> 225310, lng |-> 883470, routes |-> << "12B", "34", "AC36" >>] >>

MatchAliases ==
  << <<"howrah", "howrah station">>, <<"sealdah", "sealdah station">>, <<"newtown", "new town city centre">>,
     <<"new town", "new town city centre">>, <<"airport", "airport (nscbi)">>, <<"garia", "garia station">>,
     <<"salt lake", "salt lake sector v">>, <<"sector v", "salt lake sector v">>, <<"sector 5", "salt lake sector v">>,
     <<"sector i", "salt lake sector i">>, <<"sector 1", "salt lake sector i">>, <<"dum dum", "dum dum">>,
     <<"tollygunge", "tollygunge">>, <<"tolly", "tollygunge">>, <<"karunamoyee", "karunamoyee">>,
     <<"ruby", "ruby hospital">>, <<"esplanade", "esplanade">>, <<"jadavpur", "jadavpur">>,
     <<"barasat", "barasat">>, <<"behala", "behala">>, <<"joka", "joka">>,
     <<"bbdbagh", "bbd bagh">>, <<"bbd bagh", "bbd bagh">>, <<"gariahat", "gariahat">>,
     <<"park circus", "park circus">>, <<"science city", "science city">>, <<"dunlop", "dunlop">>,
     <<"nicco park", "nicco park">>, <<"babughat", "babughat">>, <<"shyambazar", "shyambazar">>,
     <<"barrackpore", "barrackpore">>, <<"belur", "belur math">>, <<"belur math", "belur math">>,
     <<"dakshineswar", "dakshineswar">>, <<"sovabazar", "sovabazar">>, <<"bhawanipur", "bhawanipur">>,
     <<"hazra", "hazra">>, <<"lansdowne", "lansdowne">>, <<"ballygunge", "ballygunge">>,
     <<"kasba", "kasba">>, <<"regent park", "regent park">>, <<"maniktala", "maniktala">>,
     <<"belgachia", "belgachia">>, <<"cossipore", "cossipore">>, <<"sodepur", "sodepur">>,
     <<"naihati", "naihati">>, <<"chandannagar", "chandannagar">>, <<"bally", "bally">>,
     <<"liluah", "liluah">>, <<"belgharia", "belgharia">>, <<"madhyamgram", "madhyamgram">>,
     <<"rajarhat", "rajarhat">>, <<"chinar park", "chinar park">>, <<"baguiati", "baguiati">>,
     <<"phoolbagan", "phoolbagan">>, <<"entally", "entally">>, <<"dharmatala", "dharmatala">>,
     <<"maidan", "maidan">>, <<"nandan", "nandan">>, <<"exide", "exide crossing">>,
     <<"rabindra sadan", "rabindra sadan">> >>

EtaAliases ==
  << <<"howrah", "howrah station">>, <<"sealdah", "sealdah station">>, <<"airport", "airport (nscbi)">>,
     <<"newtown", "new town city centre">>, <<"new town", "new town city centre">>, <<"salt lake", "salt lake sector v">>,
     <<"sector v", "salt lake sector v">>, <<"garia", "garia station">>, <<"behala", "behala">>,
     <<"joka", "joka">>, <<"esplanade", "esplanade">>, <<"jadavpur", "jadavpur">>,
     <<"dunlop", "dunlop">>, <<"tollygunge", "tollygunge">>, <<"barasat", "barasat">>,
     <<"bbd bagh", "bbd bagh">>, <<"bbdbagh", "bbd bagh">>, <<"karunamoyee", "karunamoyee">>,
     <<"science city", "science city">>, <<"ruby", "ruby hospital">>, <<"park circus", "park circus">>,
     <<"gariahat", "gariahat">>, <<"shyambazar", "shyambazar">>, <<"nicco park", "nicco park">>,
     <<"babughat", "babughat">>, <<"barrackpore", "barrackpore">>, <<"ultadanga", "ultadanga">>,
     <<"dum dum", "dum dum">>, <<"moulali", "moulali">>, <<"belur", "belur math">>,
     <<"belur math", "belur math">>, <<"dakshineswar", "dakshineswar">>, <<"sovabazar", "sovabazar">>,
     <<"bhawanipur", "bhawanipur">>, <<"hazra", "hazra">>, <<"lansdowne", "lansdowne">>,
     <<"ballygunge", "ballygunge">>, <<"kasba", "kasba">>, <<"regent park", "regent park">>,
     <<"maniktala", "maniktala">>, <<"belgachia", "belgachia">>, <<"cossipore", "cossipore">>,
     <<"sodepur", "sodepur">>, <<"naihati", "naihati">>, <<"chandannagar", "chandannagar">>,
     <<"bally", "bally">>, <<"liluah", "liluah">>, <<"belgharia", "belgharia">>,
     <<"madhyamgram", "madhyamgram">>, <<"rajarhat", "rajarhat">>, <<"chinar park", "chinar park">>,
     <<"baguiati", "baguiati">>, <<"phoolbagan", "phoolbagan">>, <<"entally", "entally">>,
     <<"dharmatala", "dharmatala">>, <<"maidan", "maidan">>, <<"nandan", "nandan">>,
     <<"exide", "exide crossing">>, <<"rabindra sadan", "rabindra sadan">> >>

(***************************************************************************)
(* Text.  Python's str operations on the texts the model uses (ASCII).      *)
(***************************************************************************)
None == [none |-> TRUE]

NumStops == Len(BUS_STOPS)

UpperChars == "ABCDEFGHIJKLMNOPQRSTUVWXYZ"

LowerChars == "abcdefghijklmnopqrstuvwxyz"

CharAt(s, i) == SubSeq(s, i, i)

\* the position of character c in alphabet abc, 0 when it is not in it
IndexIn(abc, c) ==
  LET I == {i \in 1..Len(abc) : CharAt(abc, i) = c}
  IN IF I = {} THEN 0 ELSE CHOOSE i \in I : TRUE

LowerChar(c) ==
  LET i == IndexIn(UpperChars, c) IN IF i = 0 THEN c ELSE CharAt(LowerChars, i)

UpperChar(c) ==
  LET i == IndexIn(LowerChars, c) IN IF i = 0 THEN c ELSE CharAt(UpperChars, i)

RECURSIVE Lower(_)
\* str.lower()
Lower(s) ==
  IF s = "" THEN "" ELSE LowerChar(CharAt(s, 1)) \o Lower(SubSeq(s, 2, Len(s)))

RECURSIVE Upper(_)
\* str.upper()
Upper(s) ==
  IF s = "" THEN "" ELSE UpperChar(CharAt(s, 1)) \o Upper(SubSeq(s, 2, Len(s)))

IsSpace(c) == c \in {" ", "\t", "\n", "\r"}

\* str.strip()
Strip(s) ==
  LET I == {i \in 1..Len(s) : ~IsSpace(CharAt(s, i))}
  IN IF I = {} THEN ""
     ELSE SubSeq(s, CHOOSE i \in I : \A j \in I : i <= j,
                    CHOOSE i \in I : \A j \in I : j <= i)

\* q in s
Contains(q, s) ==
  \E i \in 0..(Len(s) - Len(q)) : SubSeq(s, i + 1, i + Len(q)) = q

\* s.startswith(q)
StartsWith(s, q) == Len(q) <= Len(s) /\ SubSeq(s, 1, Len(q)) = q

\* str.split(): the maximal runs of non-space characters, in order
Split(s) ==
  LET Starts == {i \in 1..Len(s) :
                   ~IsSpace(CharAt(s, i)) /\ (i = 1 \/ IsSpace(CharAt(s, i - 1)))}
      End(i) == CHOOSE j \in i..Len(s) :
                   /\ \A k \in i..j : ~IsSpace(CharAt(s, k))
                   /\ (j = Len(s) \/ IsSpace(CharAt(s, j + 1)))
  IN {SubSeq(s, i, End(i)) : i \in Starts}

\* s["name"].lower() of every stop, by catalog position
NameLower == [i \in 1..NumStops |-> Lower(BUS_STOPS[i].name)]

\* `for s in BUS_STOPS: if P(s): return s`, None when the loop ends
FirstStop(P(_)) ==
  LET I == {i \in 1..NumStops : P(i)}
  IN IF I = {} THEN None ELSE BUS_STOPS[CHOOSE i \in I : \A j \in I : i <= j]

(***************************************************************************)
(* StopResolver: _match_stop.                                               *)
(***************************************************************************)
NormalizeNoLower(query) == Strip(query)

\* q = query.lower().strip()
Normalize(query) == Strip(Lower(query))

ExactMatchContains(q) ==
  FirstStop(LAMBDA i : Contains(q, NameLower[i]) \/ BUS_STOPS[i].id = q)

\* exact match on the lower-cased name or the id
ExactMatch(q) ==
  FirstStop(LAMBDA i : NameLower[i] = q \/ BUS_STOPS[i].id = q)

\* aliases[q], "" when q is no key
AliasOf(aliases, q) ==
  LET I == {i \in 1..Len(aliases) : aliases[i][1] = q}
  IN IF I = {} THEN "" ELSE aliases[CHOOSE i \in I : TRUE][2]

IsAlias(aliases, q) == \E i \in 1..Len(aliases) : aliases[i][1] = q

\* alias lookup, then exact match on the canonical name
AliasMatch(q) ==
  IF IsAlias(MatchAliases, q)
    THEN FirstStop(LAMBDA i : NameLower[i] = AliasOf(MatchAliases, q))
    ELSE None

PartialMatchesPrefix(q) == {i \in 1..NumStops : StartsWith(NameLower[i], q)}

\* the stops whose lower-cased name contains q, by catalog position
PartialMatches(q) == {i \in 1..NumStops : Contains(q, NameLower[i])}

\* one match: that stop; several: the first of the stable sort by name length
PartialMatch(q) ==
  LET M == PartialMatches(q)
  IN IF M = {} THEN None
     ELSE BUS_STOPS[CHOOSE i \in M :
            \A j \in M : \/ Len(BUS_STOPS[i].name) < Len(BUS_STOPS[j].name)
                         \/ /\ Len(BUS_STOPS[i].name) = Len(BUS_STOPS[j].name)
                            /\ i <= j]

\* the first stop with a name word that starts with q
WordStartMatch(q) ==
  FirstStop(LAMBDA i : \E w \in Split(NameLower[i]) : StartsWith(w, q))

match_stop_partial_first(query) ==
  LET q == Normalize(query) IN
  IF ExactMatch(q) # None THEN ExactMatch(q)
  ELSE IF PartialMatch(q) # None THEN PartialMatch(q)
  ELSE IF AliasMatch(q) # None THEN AliasMatch(q)
  ELSE WordStartMatch(q)

_match_stop(query) ==
  LET q == Normalize(query) IN
  IF ExactMatch(q) # None THEN ExactMatch(q)
  ELSE IF AliasMatch(q) # None THEN AliasMatch(q)
  ELSE IF PartialMatch(q) # None THEN PartialMatch(q)
  ELSE WordStartMatch(q)

(***************************************************************************)
(* Arithmetic.  TLC's integers are 32-bit, so square roots and products     *)
(* are computed in fixed point without leaving that range.                  *)
(***************************************************************************)
Max(a, b) == IF a >= b THEN a ELSE b

Min(a, b) == IF a <= b THEN a ELSE b

Abs(a) == IF a >= 0 THEN a ELSE -a

\* floor(a * b / c) for a, b >= 0 and c > 0, with (a \div c) * b and c * b in range
MulDiv(a, b, c) == (a \div c) * b + ((a % c) * b) \div c

RECURSIVE ISqrt(_)
\* floor(sqrt(n))
ISqrt(n) ==
  IF n < 2 THEN n
  ELSE LET s == 2 * ISqrt(n \div 4)
       IN IF (s + 1) * (s + 1) <= n THEN s + 1 ELSE s

RECURSIVE SqrtBits(_, _, _)
\* r = floor(sqrt(n) * 2^j) with remainder rem = n * 4^j - r^2: k more binary digits
SqrtBits(r, rem, k) ==
  IF k = 0 THEN r
  ELSE IF 4 * rem >= 4 * r + 1
         THEN SqrtBits(2 * r + 1, 4 * rem - 4 * r - 1, k - 1)
         ELSE SqrtBits(2 * r, 4 * rem, k - 1)

\* binary digits kept after the point by the square roots
FracBits == 14

TwoToFrac == 2^FracBits

\* floor(math.sqrt(n) * 2^FracBits)
Sqrt(n) == LET r == ISqrt(n) IN SqrtBits(r, n - r * r, FracBits)

(***************************************************************************)
(* Trigonometry of haversine, in fixed point: a real x in [0, 1] is the     *)
(* integer floor(x * 2^28).  Angles come in units of 1e-4 degree.           *)
(***************************************************************************)
One == TwoToFrac * TwoToFrac

\* floor(a * b / 2^28) for a, b in 0..2^28, by 14-bit halves
QMul(a, b) ==
  LET ah == a \div TwoToFrac
      al == a % TwoToFrac
      bh == b \div TwoToFrac
      bl == b % TwoToFrac
  IN ah * bh + (ah * bl + al * bh) \div TwoToFrac

\* a * b / 2^28 as <<integer part, the next FracBits binary digits>>
QMulParts(a, b) ==
  LET ah == a \div TwoToFrac
      al == a % TwoToFrac
      bh == b \div TwoToFrac
      bl == b % TwoToFrac
      fr == ah * bl + al * bh + (al * bl) \div TwoToFrac
  IN <<ah * bh + fr \div TwoToFrac, fr % TwoToFrac>>

\* math.radians(u) / 2 for u in units of 1e-4 degree: u * 234.2541268 / 2^28
HalfRadians(u) == MulDiv(Abs(u), 234254, 1000) + MulDiv(Abs(u), 1268, 10000000)

\* math.sin(x) for x in [0, 1]: x (1 - x^2/6 (1 - x^2/20 (1 - x^2/42 (1 - x^2/72))))
Sin(x) ==
  LET x2 == QMul(x, x)
      t4 == One - x2 \div 72
      t3 == One - QMul(x2, t4) \div 42
      t2 == One - QMul(x2, t3) \div 20
      t1 == One - QMul(x2, t2) \div 6
  IN QMul(x, t1)

Square(x) == QMul(x, x)

\* math.cos(math.radians(u)) = 1 - 2 sin(radians(u) / 2)^2
CosDegrees(u) == One - 2 * Square(Sin(HalfRadians(u)))

\* math.sin(math.radians(u) / 2) ** 2 for |u| up to a degree, in units of
\* (1e-4 degree / 2 in radians)^2: u^2 (1 - (radians(u)/2)^2 / 3)
SinSqHalf(u) ==
  LET u2 == u * u IN u2 - QMul(u2, (u2 * 2) \div 9784) \div 3

RECURSIVE SqrtFeed(_, _, _, _)
\* k more binary digits of a square root whose radicand continues with the
\* 2k binary digits lo; <<root, remainder>>
SqrtFeed(r, rem, lo, k) ==
  IF k = 0 THEN <<r, rem>>
  ELSE LET p == 4^(k - 1)
           n == 4 * rem + lo \div p
       IN IF n >= 4 * r + 1
            THEN SqrtFeed(2 * r + 1, n - 4 * r - 1, lo % p, k - 1)
            ELSE SqrtFeed(2 * r, n, lo % p, k - 1)

\* floor(math.sqrt(hi + lo / 2^FracBits) * 2^FracBits)
SqrtParts(hi, lo) ==
  LET r == ISqrt(hi)
      f == SqrtFeed(r, hi - r * r, lo, FracBits \div 2)
  IN SqrtBits(f[1], f[2], FracBits - FracBits \div 2)

\* R * 2 * atan2(sqrt(a), sqrt(1 - a)) in millimetres, for a = (a_hi + a_lo /
\* 2^FracBits) (radians(1e-4) / 2)^2 of two points within a degree of each
\* other: 2 R sqrt(a) (1 + a/6), with 2 R (radians(1e-4) / 2) = 11119.4927 mm
ArcLength(s, a_hi) ==
  (MulDiv(s, 11119, TwoToFrac) + MulDiv(s, 4927, TwoToFrac) \div 10000)
    + QMul(MulDiv(s, 11119, TwoToFrac) + MulDiv(s, 4927, TwoToFrac) \div 10000,
           (a_hi * 2) \div 9784) \div 6

\* a = sin_lat + cos_lon, the second term given as QMulParts gives it
HaversineOf(sin_lat, cos_lon) ==
  ArcLength(SqrtParts(sin_lat + cos_lon[1], cos_lon[2]), sin_lat + cos_lon[1])

\* haversine(lat1, lon1, lat2, lon2) in millimetres:
\*   a = sin(dlat/2)^2 + cos(lat1) cos(lat2) sin(dlon/2)^2
haversine(lat1, lon1, lat2, lon2) ==
  HaversineOf(SinSqHalf(lat2 - lat1),
              QMulParts(SinSqHalf(lon2 - lon1), QMul(CosDegrees(lat1), CosDegrees(lat2))))

\* round(x) of x = n / unit, n >= 0 (no input of the model is an exact half)
RoundDiv(n, unit) == (2 * n + unit) \div (2 * unit)

(***************************************************************************)
(* Catalog lookups.                                                         *)
(***************************************************************************)
\* set(s.get("routes", []))
RouteSet(s) == {s.routes[i] : i \in 1..Len(s.routes)}

\* next((r for r in BUS_ROUTES if r["id"] == rid), None)
RouteById(rid) ==
  LET I == {i \in 1..Len(BUS_ROUTES) : BUS_ROUTES[i].id = rid}
  IN IF I = {} THEN None ELSE BUS_ROUTES[CHOOSE i \in I : \A j \in I : i <= j]

\* the catalog stop with this name
StopNamed(name) == BUS_STOPS[CHOOSE i \in 1..NumStops : BUS_STOPS[i].name = name]

RouteIndex(rid) == CHOOSE i \in 1..Len(BUS_ROUTES) : BUS_ROUTES[i].id = rid

(***************************************************************************)
(* Iteration order of a Python set of route ids.  CPython walks the hash    *)
(* table's slots, and str hashes depend on the per-process hash seed, so    *)
(* the order of `for rid in direct_routes` and of list(common)[0] is fixed  *)
(* within a process and differs between processes.  The model ranks the     *)
(* route ids by (catalog position * seed) mod 31, one ranking per seed.     *)
(***************************************************************************)
NumHashSeeds == 3

HashSeeds == 1..NumHashSeeds

SlotRank(rid, seed) == (RouteIndex(rid) * seed) % 31

RECURSIVE SetToListFrom(_, _)
SetToListFrom(S, seed) ==
  IF S = {} THEN << >>
  ELSE LET x == CHOOSE x \in S : \A y \in S : SlotRank(x, seed) <= SlotRank(y, seed)
       IN <<x>> \o SetToListFrom(S \ {x}, seed)

\* list(S): the elements of a set in its iteration order
SetToList(S, seed) == SetToListFrom(S, seed)

(***************************************************************************)
(* list.sort(key=...): stable.                                              *)
(***************************************************************************)
\* element i of seq ends at position 1 + the number of elements that go before
\* it: those with a smaller key, and those with an equal key that precede it
StableSort(seq, Less(_, _)) ==
  LET n == Len(seq)
      s == SubSeq(seq, 1, n)
      pos == SubSeq([i \in 1..n |->
                       1 + Cardinality({j \in 1..n :
                             \/ Less(s[j], s[i])
                             \/ ~Less(s[i], s[j]) /\ j < i})], 1, n)
  IN SubSeq([k \in 1..n |-> s[CHOOSE i \in 1..n : pos[i] = k]], 1, n)

\* seq[:n]
Take(seq, n) == SubSeq(seq, 1, Min(n, Len(seq)))

(***************************************************************************)
(* ConnectionFinder: find_route_between.                                    *)
(***************************************************************************)
\* math.sqrt((a.lat-b.lat)**2 + (a.lng-b.lng)**2) * 111, in millimetres
FlatDistance(a, b) ==
  LET dlat == a.lat - b.lat
      dlng == a.lng - b.lng
  IN MulDiv(Sqrt(dlat * dlat + dlng * dlng), 11100, TwoToFrac)

MinutesAt35Rounded(dist) == (dist * 7 + 1000000) \div 2000000

\* int(dist * 3.5), dist in millimetres
MinutesAt35(dist) == (dist * 7) \div 2000000

DirectResult(from_s, to_s, route) ==
  [type |-> "direct", route |-> route,
   from_stop |-> from_s.name, to_stop |-> to_s.name,
   estimated_time_min |-> Max(5, MinutesAt35(FlatDistance(from_s, to_s))),
   estimated_fare |-> route.fare_min, transfers |-> 0]

\* the loop over direct_routes
DirectResults(from_s, to_s, seed) ==
  LET rids == SetToList(RouteSet(from_s) \cap RouteSet(to_s), seed)
      found == SelectSeq(rids, LAMBDA rid : RouteById(rid) # None)
  IN [i \in 1..Len(found) |-> DirectResult(from_s, to_s, RouteById(found[i]))]

TransferResultLegsSwapped(from_s, mid_stop, to_s, r1, r2) ==
  [type |-> "transfer", leg1_route |-> r2, leg2_route |-> r1,
   from_stop |-> from_s.name, transfer_stop |-> mid_stop.name, to_stop |-> to_s.name,
   estimated_time_min |->
     Max(10, MinutesAt35(FlatDistance(from_s, mid_stop) + FlatDistance(mid_stop, to_s)) + 5),
   estimated_fare |-> r1.fare_min + r2.fare_min, transfers |-> 1]

\* transfer_results.append({...})
TransferResult(from_s, mid_stop, to_s, r1, r2) ==
  [type |-> "transfer", leg1_route |-> r1, leg2_route |-> r2,
   from_stop |-> from_s.name, transfer_stop |-> mid_stop.name, to_stop |-> to_s.name,
   estimated_time_min |->
     Max(10, MinutesAt35(FlatDistance(from_s, mid_stop) + FlatDistance(mid_stop, to_s)) + 5),
   estimated_fare |-> r1.fare_min + r2.fare_min, transfers |-> 1]

\* the positions of I in increasing order
Ascending(I) ==
  [k \in 1..Cardinality(I) |-> CHOOSE i \in I : Cardinality({j \in I : j < i}) = k - 1]

\* the loop over mid_stop: transfer_results, in catalog order of the transfer
\* stop; a stop is skipped when it is an end of the trip, when it shares no
\* route with one of the ends, or when its key is already in seen_transfers
TransferLoop(from_s, to_s, seed) ==
  LET from_common(i) == RouteSet(from_s) \cap RouteSet(BUS_STOPS[i])
      to_common(i) == RouteSet(BUS_STOPS[i]) \cap RouteSet(to_s)
      r1(i) == RouteById(SetToList(from_common(i), seed)[1])
      r2(i) == RouteById(SetToList(to_common(i), seed)[1])
      key(i) == <<r1(i).id, BUS_STOPS[i].id, r2(i).id>>
      Q == {i \in 1..NumStops :
              /\ BUS_STOPS[i].id # from_s.id
              /\ BUS_STOPS[i].id # to_s.id
              /\ from_common(i) # {}
              /\ to_common(i) # {}
              /\ r1(i) # None
              /\ r2(i) # None}
      kept == Ascending({i \in Q : ~\E j \in Q : j < i /\ key(j) = key(i)})
  IN [k \in 1..Len(kept) |->
        TransferResult(from_s, BUS_STOPS[kept[k]], to_s, r1(kept[k]), r2(kept[k]))]

ByTime(x, y) == x.estimated_time_min < y.estimated_time_min

ByTransfersThenTime(x, y) ==
  \/ x.transfers < y.transfers
  \/ x.transfers = y.transfers /\ x.estimated_time_min < y.estimated_time_min

TransferResultsUnsorted(from_s, to_s, seed) ==
  Take(TransferLoop(from_s, to_s, seed), 5)

\* transfer_results.sort(key=time); results = transfer_results[:5]
TransferResults(from_s, to_s, seed) ==
  Take(StableSort(TransferLoop(from_s, to_s, seed), ByTime), 5)

CandidatesAlways(from_s, to_s, seed) ==
  DirectResults(from_s, to_s, seed) \o TransferResults(from_s, to_s, seed)

CandidatesTransfersOnly(from_s, to_s, seed) ==
  TransferResults(from_s, to_s, seed)

\* the candidates before the final sort
Candidates(from_s, to_s, seed) ==
  LET results == DirectResults(from_s, to_s, seed)
  IN IF results = << >> THEN TransferResults(from_s, to_s, seed) ELSE results

\* GET /routes/find-route
find_route_between(from_stop, to_stop, seed) ==
  LET from_s == _match_stop(from_stop)
      to_s == _match_stop(to_stop)
  IN IF from_s = None \/ to_s = None
       THEN [code |-> 404,
             missing |-> (IF from_s = None THEN <<from_stop>> ELSE << >>)
                           \o (IF to_s = None THEN <<to_stop>> ELSE << >>)]
       ELSE [code |-> 200,
             results |-> Take(StableSort(Candidates(from_s, to_s, seed), ByTransfersThenTime), 5),
             from |-> from_s.name, to |-> to_s.name,
             from_coords |-> [lat |-> from_s.lat, lng |-> from_s.lng],
             to_coords |-> [lat |-> to_s.lat, lng |-> to_s.lng]]

(***************************************************************************)
(* GeoIndex: get_nearest_stops.  distance_km is in units of 0.01 km,        *)
(* distance_m in metres.                                                    *)
(***************************************************************************)
\* "distance_km": round(dist, 2), "distance_m": round(dist * 1000)
DistanceFields(dist) ==
  [distance_km |-> RoundDiv(dist, 10000), distance_m |-> RoundDiv(dist, 1000)]

\* {**s, "distance_km": ..., "distance_m": ...}
StopWithDist(lat, lng, s) == s @@ DistanceFields(haversine(lat, lng, s.lat, s.lng))

ByDistanceKm(x, y) == x.distance_km < y.distance_km

\* GET /stops/nearest, limit >= 0
get_nearest_stops(lat, lng, limit) ==
  LET stops_with_dist == [i \in 1..NumStops |-> StopWithDist(lat, lng, BUS_STOPS[i])]
  IN [code |-> 200,
      stops |-> Take(StableSort(stops_with_dist, ByDistanceKm), limit),
      user_location |-> [lat |-> lat, lng |-> lng]]

(***************************************************************************)
(* EtaEstimator: smart_eta.  Times are in tenths of a minute, the traffic   *)
(* index in hundredths, speeds in km/h.                                     *)
(***************************************************************************)
\* round(n / d) of Python 3: an exact half goes to the even neighbour
RoundHalfEven(n, d) ==
  LET q == n \div d
      r == n % d
  IN IF 2 * r < d THEN q ELSE IF 2 * r > d THEN q + 1 ELSE q + (q % 2)

\* the distance_km below 6 km for which distance_km / 0.08, an exact half of
\* a tenth in the reals, is a double just below or just above that half
WalkFloatBelow == {94, 118, 230, 238, 406, 414, 422, 502, 510}

WalkFloatAbove == {498}

\* round(walk_distance_km / 0.08, 1)
WalkTime(distance_km) ==
  RoundHalfEven(5 * distance_km, 4)
    + (IF distance_km \in WalkFloatAbove THEN 1
       ELSE IF distance_km \in WalkFloatBelow THEN -1 ELSE 0)

\* {**s, "distance_km": round(dist, 2)}
NearbyStop(lat, lng, s) ==
  s @@ [distance_km |-> RoundDiv(haversine(lat, lng, s.lat, s.lng), 10000)]

\* step 1: the catalog sorted by the rounded distance from the rider
StopsByDist(lat, lng) ==
  StableSort([i \in 1..NumStops |-> NearbyStop(lat, lng, BUS_STOPS[i])], ByDistanceKm)

\* step 2: the destination text to a stop
EtaDestination(destination) ==
  LET dest_lower == Lower(Strip(destination))
      resolved == IF IsAlias(EtaAliases, dest_lower)
                    THEN AliasOf(EtaAliases, dest_lower) ELSE dest_lower
      first == FirstStop(LAMBDA i : \/ resolved = NameLower[i]
                                    \/ Contains(dest_lower, NameLower[i])
                                    \/ StartsWith(NameLower[i], dest_lower))
  IN IF first # None THEN first
     ELSE FirstStop(LAMBDA i : \E word \in Split(dest_lower) : Contains(word, NameLower[i]))

\* the least element of a set of numbers
Minimum(K) == CHOOSE k \in K : \A j \in K : k <= j

\* best_result of the direct case
DirectFrom(nearby, route, dest_stop) ==
  [pickup_stop |-> nearby, route |-> route,
   stop_distance_km |->
     RoundDiv(haversine(nearby.lat, nearby.lng, dest_stop.lat, dest_stop.lng), 10000),
   is_transfer |-> FALSE]

\* step 3: the first of the 8 nearest stops that shares a route with the
\* destination and is not the destination
EtaDirect(stops_by_dist, dest_stop, seed) ==
  LET common_routes(k) == RouteSet(stops_by_dist[k]) \cap RouteSet(dest_stop)
      route(k) == RouteById(SetToList(common_routes(k), seed)[1])
      K == {k \in 1..Min(8, Len(stops_by_dist)) :
              /\ common_routes(k) # {}
              /\ stops_by_dist[k].id # dest_stop.id
              /\ route(k) # None}
  IN IF K = {} THEN None
     ELSE DirectFrom(stops_by_dist[Minimum(K)], route(Minimum(K)), dest_stop)

\* best_result of the fallback
TransferFrom(nearby, mid_stop, r1, r2, dest_stop) ==
  [pickup_stop |-> nearby, route |-> r1,
   transfer_stop |-> mid_stop, transfer_route |-> r2,
   stop_distance_km |->
     RoundDiv(haversine(nearby.lat, nearby.lng, mid_stop.lat, mid_stop.lng)
                + haversine(mid_stop.lat, mid_stop.lng, dest_stop.lat, dest_stop.lng),
              10000),
   is_transfer |-> TRUE]

\* the first pair of P in the order of the two loops
FirstPair(P) ==
  CHOOSE p \in P : \A q \in P : p[1] < q[1] \/ (p[1] = q[1] /\ p[2] <= q[2])

\* r1 or r2 of the fallback: the first route of list(common)
FirstCommon(a, b, seed) == RouteById(SetToList(RouteSet(a) \cap RouteSet(b), seed)[1])

\* the fallback: the first of the 5 nearest stops, and for it the first stop
\* of the catalog, that give a change of bus
TransferPairs(stops_by_dist, dest_stop, seed) ==
  {p \in (1..Min(5, Len(stops_by_dist))) \X (1..NumStops) :
     /\ RouteSet(stops_by_dist[p[1]]) \cap RouteSet(BUS_STOPS[p[2]]) # {}
     /\ RouteSet(BUS_STOPS[p[2]]) \cap RouteSet(dest_stop) # {}
     /\ stops_by_dist[p[1]].id # BUS_STOPS[p[2]].id
     /\ BUS_STOPS[p[2]].id # dest_stop.id
     /\ FirstCommon(stops_by_dist[p[1]], BUS_STOPS[p[2]], seed) # None
     /\ FirstCommon(BUS_STOPS[p[2]], dest_stop, seed) # None}

TransferAt(p, stops_by_dist, dest_stop, seed) ==
  TransferFrom(stops_by_dist[p[1]], BUS_STOPS[p[2]],
               FirstCommon(stops_by_dist[p[1]], BUS_STOPS[p[2]], seed),
               FirstCommon(BUS_STOPS[p[2]], dest_stop, seed), dest_stop)

EtaTransferOf(P, stops_by_dist, dest_stop, seed) ==
  IF P = {} THEN None ELSE TransferAt(FirstPair(P), stops_by_dist, dest_stop, seed)

EtaTransfer(stops_by_dist, dest_stop, seed) ==
  EtaTransferOf(TransferPairs(stops_by_dist, dest_stop, seed), stops_by_dist, dest_stop, seed)

\* `if not best_result:` after the direct scan
OrTransfer(direct, stops_by_dist, dest_stop, seed) ==
  IF direct # None THEN direct ELSE EtaTransfer(stops_by_dist, dest_stop, seed)

BestResult(stops_by_dist, dest_stop, seed) ==
  OrTransfer(EtaDirect(stops_by_dist, dest_stop, seed), stops_by_dist, dest_stop, seed)

RECURSIVE SumSpeed(_, _)
\* sum(b.speed for b in the rows R of d)
SumSpeed(d, R) ==
  IF R = {} THEN 0
  ELSE LET r == CHOOSE r \in R : TRUE IN d[r].speed + SumSpeed(d, R \ {r})

RushHour(hour_of_day) ==
  (8 <= hour_of_day /\ hour_of_day <= 10) \/ (17 <= hour_of_day /\ hour_of_day <= 20)

\* step 4: round(max(0.1, min(1.0, 1.0 - (avg_live_speed - 5) / 35)), 2) when a
\* live bus moves, the time-of-day value otherwise
TrafficIndex(d, hour_of_day) ==
  LET moving == {r \in DOMAIN d : d[r].speed > 0}
      n == Cardinality(moving)
      num == 800 * n - 20 * SumSpeed(d, moving)
  IN IF moving # {}
       THEN [traffic_index |-> IF num <= 70 * n THEN 10
                               ELSE IF num >= 700 * n THEN 100
                               ELSE RoundHalfEven(num, 7 * n),
             traffic_source |-> "live_speed"]
       ELSE [traffic_index |-> IF RushHour(hour_of_day) THEN 80
                               ELSE IF 11 <= hour_of_day /\ hour_of_day <= 16 THEN 50
                               ELSE IF 21 <= hour_of_day \/ hour_of_day <= 5 THEN 20
                               ELSE 40,
             traffic_source |-> "time_of_day"]

\* round((stop_distance / 22) * 60 * traffic_multiplier, 1)
FormulaBusTravel(stop_distance_km, traffic_index, hour_of_day) ==
  LET multiplier == 1000 + 8 * traffic_index + (IF RushHour(hour_of_day) THEN 300 ELSE 0)
  IN RoundHalfEven(3 * stop_distance_km * multiplier, 11000)

\* round((bus_to_stop_dist / speed) * 60 * (1 + traffic_index * 0.8), 1) with
\* the distance in millimetres and 15 km/h for a standing bus
FormulaLiveEta(dist, bus_speed, traffic_index) ==
  LET speed == Max(IF bus_speed > 0 THEN bus_speed ELSE 15, 1)
      multiplier == 1000 + 8 * traffic_index
      n == ((3 * dist) \div 10000) * multiplier
             + (((3 * dist) % 10000) * multiplier) \div 10000
  IN RoundHalfEven(n, 500 * speed)

\* round(float(eta_model.predict(features)[0]), 1), the prediction in hundredths
RoundPrediction(p) == RoundHalfEven(p, 10)

EtaTimesStaleTotal(walk_time_min, bus_travel_min, frequency_min, has_live, live_eta) ==
  [walk_time_min |-> walk_time_min,
   wait_time_min |-> IF has_live THEN live_eta ELSE 5 * frequency_min,
   bus_travel_min |-> bus_travel_min,
   total_min |-> walk_time_min + 5 * frequency_min + bus_travel_min]

\* wait_time_min = round(frequency_min / 2, 1) and the total of the three
\* times; with a live bus on the route the wait is its live ETA and the total
\* is taken again
EtaTimes(walk_time_min, bus_travel_min, frequency_min, has_live, live_eta) ==
  LET wait_time_min == 5 * frequency_min
      total_eta_min == walk_time_min + wait_time_min + bus_travel_min
  IN [walk_time_min |-> walk_time_min,
      wait_time_min |-> IF has_live THEN live_eta ELSE wait_time_min,
      bus_travel_min |-> bus_travel_min,
      total_min |-> IF has_live THEN walk_time_min + live_eta + bus_travel_min
                    ELSE total_eta_min]

ClosestLiveAnyOnRoute(d, route_id, pickup) ==
  {r \in DOMAIN d : d[r].route_id = route_id}

\* the rows of d on the route that are nearest to the pickup stop: min() takes
\* the first of them in the order the query returns the rows
ClosestLive(d, route_id, pickup) ==
  LET live_buses == {r \in DOMAIN d : d[r].route_id = route_id}
      dist(r) == haversine(d[r].latitude, d[r].longitude, pickup.lat, pickup.lng)
  IN {r \in live_buses : \A o \in live_buses : dist(r) <= dist(o)}

\* live_bus for the row `closest` at bus_to_stop_dist millimetres
LiveBusAt(closest, bus_to_stop_dist, traffic_index, model) ==
  [bus_reg |-> closest.bus_reg,
   distance_km |-> RoundDiv(bus_to_stop_dist, 10000),
   speed |-> closest.speed,
   crowd_level |-> closest.crowd_level,
   status |-> closest.status,
   live_eta_min |-> IF model # None THEN RoundPrediction(model.live_eta)
                    ELSE FormulaLiveEta(bus_to_stop_dist, closest.speed, traffic_index)]

\* step 5 (the second): live_bus, None when the route has no row
LiveBus(closest, pickup, traffic_index, model) ==
  IF closest = None THEN None
  ELSE LiveBusAt(closest,
                 haversine(closest.latitude, closest.longitude, pickup.lat, pickup.lng),
                 traffic_index, model)

\* bus_travel_min by the regressor or by the formula
BusTravel(stop_distance_km, traffic_index, hour_of_day, model) ==
  IF model # None THEN RoundPrediction(model.bus_travel)
  ELSE FormulaBusTravel(stop_distance_km, traffic_index, hour_of_day)

\* the response built from the pickup, the route, the traffic and the live bus
EtaResponse(user_lat, user_lng, dest_stop, best_result, traffic, hour_of_day, model, live_bus) ==
  [code |-> 200,
   user_location |-> [lat |-> user_lat, lng |-> user_lng],
   pickup_stop |-> [name |-> best_result.pickup_stop.name,
                    lat |-> best_result.pickup_stop.lat,
                    lng |-> best_result.pickup_stop.lng,
                    distance_km |-> best_result.pickup_stop.distance_km,
                    walk_time_min |-> WalkTime(best_result.pickup_stop.distance_km)],
   destination_stop |-> [name |-> dest_stop.name, lat |-> dest_stop.lat,
                         lng |-> dest_stop.lng],
   bus_route |-> best_result.route,
   eta |-> [source |-> IF model # None THEN "ml_model" ELSE "formula"]
             @@ EtaTimes(WalkTime(best_result.pickup_stop.distance_km),
                         BusTravel(best_result.stop_distance_km, traffic.traffic_index,
                                   hour_of_day, model),
                         best_result.route.frequency_min,
                         live_bus # None,
                         IF live_bus = None THEN 0 ELSE live_bus.live_eta_min),
   distance_km |-> best_result.stop_distance_km,
   traffic_index |-> traffic.traffic_index,
   traffic_source |-> traffic.traffic_source,
   hour_of_day |-> hour_of_day,
   live_bus |-> live_bus,
   transfer |-> IF best_result.is_transfer
                  THEN [stop |-> best_result.transfer_stop,
                        route |-> best_result.transfer_route]
                  ELSE None]

\* steps 4 to 6, one response for each row that can be `closest`
EtaResponses(user_lat, user_lng, dest_stop, best_result, d, traffic, hour_of_day, model, closest) ==
  {EtaResponse(user_lat, user_lng, dest_stop, best_result, traffic, hour_of_day, model,
               LiveBus(row, best_result.pickup_stop, traffic.traffic_index, model)) :
     row \in IF closest = {} THEN {None} ELSE {d[r] : r \in closest}}

\* `if not best_result:` after the fallback
EtaForRoute(user_lat, user_lng, dest_stop, best_result, d, hour_of_day, model) ==
  IF best_result = None THEN {[code |-> 404, detail |-> "No bus route found"]}
  ELSE EtaResponses(user_lat, user_lng, dest_stop, best_result, d,
                    TrafficIndex(d, hour_of_day), hour_of_day, model,
                    ClosestLive(d, best_result.route.id, best_result.pickup_stop))

\* `if not dest_stop:` after step 2
EtaForDestination(user_lat, user_lng, dest_stop, stops_by_dist, d, seed, hour_of_day, model) ==
  IF dest_stop = None THEN {[code |-> 404, detail |-> "Could not find destination"]}
  ELSE EtaForRoute(user_lat, user_lng, dest_stop,
                   BestResult(stops_by_dist, dest_stop, seed), d, hour_of_day, model)

\* GET /smart-eta: the responses the call can give on table d at hour_of_day,
\* one for each row that can come first among the nearest live buses
smart_eta(user_lat, user_lng, destination, d, seed, hour_of_day, model) ==
  EtaForDestination(user_lat, user_lng, EtaDestination(destination),
                    StopsByDist(user_lat, user_lng), d, seed, hour_of_day, model)

(***************************************************************************)
(* State.                                                                   *)
(*   db    the live_buses table: a function from the registrations that     *)
(*         have a row to the row                                            *)
(*   call  the last request served                                          *)
(*   ret   its response (code 0: none yet)                                  *)
(*   pre   the table as the last request found it                           *)
(*   hashseed  the process's str hash seed (fixed when the process starts)  *)
(*   eta_model the regressor loaded from model.pkl when the process starts,  *)
(*         None when the file is missing                                     *)
(*   sessions  for each thread of the pool the request it serves and the    *)
(*         row its Session has loaded for it, between query and commit      *)
(***************************************************************************)
VARIABLES db, call, ret, pre, hashseed, eta_model, sessions

vars == <<db, call, ret, pre, hashseed, eta_model, sessions>>

\* the threads of the server's pool that serve requests at the same time
NumWorkers == 2

Workers == 1..NumWorkers

\* a thread that serves no request
Idle == [pc |-> "idle"]

NoSessions == [w \in Workers |-> Idle]

NoCall == [op |-> "none"]

NoRet == [code |-> 0]

EmptyDB == [r \in {} |-> r]

LiveBusDBNoRoute(bus_reg, route_id, latitude, longitude, speed) ==
  [bus_reg |-> bus_reg, driver_id |-> "", driver_name |-> "",
   route_id |-> "", latitude |-> latitude, longitude |-> longitude,
   speed |-> speed, passenger_count |-> 0, crowd_level |-> "Low",
   status |-> "running", delay_reason |-> ""]

\* LiveBusDB(...) with the column defaults of the table
LiveBusDB(bus_reg, route_id, latitude, longitude, speed) ==
  [bus_reg |-> bus_reg, driver_id |-> "", driver_name |-> "",
   route_id |-> route_id, latitude |-> latitude, longitude |-> longitude,
   speed |-> speed, passenger_count |-> 0, crowd_level |-> "Low",
   status |-> "running", delay_reason |-> ""]

HasBus(d, reg) == reg \in DOMAIN d

\* db.add(bus) / attribute assignment followed by db.commit()
PutBus(d, reg, bus) == [r \in DOMAIN d \cup {reg} |-> IF r = reg THEN bus ELSE d[r]]

\* db.delete(bus); db.commit()
DeleteBus(d, reg) == [r \in DOMAIN d \ {reg} |-> d[r]]

CrowdLevelStrict(n) ==
  IF n < 20 THEN "Low" ELSE IF n <= 40 THEN "Medium" ELSE "High"

\* update_passengers: the thresholds
CrowdLevel(n) ==
  IF n <= 20 THEN "Low" ELSE IF n <= 40 THEN "Medium" ELSE "High"

update_bus_location_replace(req) ==
  LET reg == req.bus_reg IN
  /\ pre' = db
  /\ UNCHANGED <<hashseed, eta_model, sessions>>
  /\ call' = [op |-> "update_location", req |-> req]
  /\ db' = PutBus(db, reg,
             LiveBusDB(reg, req.route_id, req.latitude, req.longitude, req.speed))
  /\ ret' = [code |-> 200, status |-> "ok", bus_reg |-> reg]

\* POST /bus/update-location
update_bus_location(req) ==
  LET reg == req.bus_reg IN
  /\ pre' = db
  /\ UNCHANGED <<hashseed, eta_model, sessions>>
  /\ call' = [op |-> "update_location", req |-> req]
  /\ db' = IF HasBus(db, reg)
             THEN PutBus(db, reg,
                    [db[reg] EXCEPT !.latitude = req.latitude,
                                    !.longitude = req.longitude,
                                    !.speed = req.speed,
                                    !.route_id = IF req.route_id # "" THEN req.route_id ELSE @])
             ELSE PutBus(db, reg,
                    LiveBusDB(reg, req.route_id, req.latitude, req.longitude, req.speed))
  /\ ret' = [code |-> 200, status |-> "ok", bus_reg |-> reg]

update_passengers_add(req) ==
  LET reg == req.bus_reg IN
  /\ pre' = db
  /\ UNCHANGED <<hashseed, eta_model, sessions>>
  /\ call' = [op |-> "update_passengers", req |-> req]
  /\ IF ~HasBus(db, reg)
       THEN /\ ret' = [code |-> 404, detail |-> "Bus not found"]
            /\ db' = db
       ELSE LET n == db[reg].passenger_count + req.passenger_count
                bus == [db[reg] EXCEPT !.passenger_count = n, !.crowd_level = CrowdLevel(n)]
            IN /\ db' = PutBus(db, reg, bus)
               /\ ret' = [code |-> 200, status |-> "ok",
                          crowd_level |-> bus.crowd_level,
                          passenger_count |-> bus.passenger_count]

update_passengers_unfiltered(req) ==
  LET reg == req.bus_reg IN
  /\ pre' = db
  /\ UNCHANGED <<hashseed, eta_model, sessions>>
  /\ call' = [op |-> "update_passengers", req |-> req]
  /\ IF ~HasBus(db, reg)
       THEN /\ ret' = [code |-> 404, detail |-> "Bus not found"]
            /\ db' = db
       ELSE /\ db' = [r \in DOMAIN db |->
                       [db[r] EXCEPT !.passenger_count = req.passenger_count,
                                     !.crowd_level = CrowdLevel(req.passenger_count)]]
            /\ ret' = [code |-> 200, status |-> "ok",
                       crowd_level |-> CrowdLevel(req.passenger_count),
                       passenger_count |-> req.passenger_count]

\* POST /bus/update-passengers
update_passengers(req) ==
  LET reg == req.bus_reg IN
  /\ pre' = db
  /\ UNCHANGED <<hashseed, eta_model, sessions>>
  /\ call' = [op |-> "update_passengers", req |-> req]
  /\ IF ~HasBus(db, reg)
       THEN /\ ret' = [code |-> 404, detail |-> "Bus not found"]
            /\ db' = db
       ELSE LET bus == [db[reg] EXCEPT !.passenger_count = req.passenger_count,
                                       !.crowd_level = CrowdLevel(req.passenger_count)]
            IN /\ db' = PutBus(db, reg, bus)
               /\ ret' = [code |-> 200, status |-> "ok",
                          crowd_level |-> bus.crowd_level,
                          passenger_count |-> bus.passenger_count]

update_bus_status_upsert(req) ==
  LET reg == req.bus_reg
      bus == [(IF HasBus(db, reg) THEN db[reg] ELSE LiveBusDB(reg, "", 0, 0, 0))
                EXCEPT !.status = req.status, !.delay_reason = req.delay_reason]
  IN /\ pre' = db
     /\ UNCHANGED <<hashseed, eta_model, sessions>>
     /\ call' = [op |-> "update_status", req |-> req]
     /\ db' = PutBus(db, reg, bus)
     /\ ret' = [code |-> 200, status |-> "ok", bus_status |-> bus.status]

\* POST /bus/update-status
update_bus_status(req) ==
  LET reg == req.bus_reg IN
  /\ pre' = db
  /\ UNCHANGED <<hashseed, eta_model, sessions>>
  /\ call' = [op |-> "update_status", req |-> req]
  /\ IF ~HasBus(db, reg)
       THEN /\ ret' = [code |-> 404, detail |-> "Bus not found"]
            /\ db' = db
       ELSE LET bus == [db[reg] EXCEPT !.status = req.status,
                                       !.delay_reason = req.delay_reason]
            IN /\ db' = PutBus(db, reg, bus)
               /\ ret' = [code |-> 200, status |-> "ok", bus_status |-> bus.status]

\* POST /bus/start-trip
start_trip(req) ==
  LET reg == req.bus_reg IN
  /\ pre' = db
  /\ UNCHANGED <<hashseed, eta_model, sessions>>
  /\ call' = [op |-> "start_trip", req |-> req]
  /\ db' = IF HasBus(db, reg)
             THEN PutBus(db, reg,
                    [db[reg] EXCEPT !.status = "running",
                                    !.route_id = req.route_id,
                                    !.passenger_count = 0,
                                    !.crowd_level = "Low",
                                    !.delay_reason = ""])
             ELSE PutBus(db, reg, LiveBusDB(reg, req.route_id, 0, 0, 0))
  /\ ret' = [code |-> 200, status |-> "trip_started", bus_reg |-> reg]

end_trip_not_found(bus_reg) ==
  /\ pre' = db
  /\ UNCHANGED <<hashseed, eta_model, sessions>>
  /\ call' = [op |-> "end_trip", req |-> [bus_reg |-> bus_reg]]
  /\ IF HasBus(db, bus_reg)
       THEN /\ db' = DeleteBus(db, bus_reg)
            /\ ret' = [code |-> 200, status |-> "trip_ended", bus_reg |-> bus_reg]
       ELSE /\ db' = db
            /\ ret' = [code |-> 404, detail |-> "Bus not found"]

\* POST /bus/end-trip
end_trip(bus_reg) ==
  /\ pre' = db
  /\ UNCHANGED <<hashseed, eta_model, sessions>>
  /\ call' = [op |-> "end_trip", req |-> [bus_reg |-> bus_reg]]
  /\ db' = IF HasBus(db, bus_reg) THEN DeleteBus(db, bus_reg) ELSE db
  /\ ret' = [code |-> 200, status |-> "trip_ended", bus_reg |-> bus_reg]

(***************************************************************************)
(* Telemetry requests of the fleet specification.                           *)
(***************************************************************************)
Regs == {"WB01A1234", "WB02B5678"}

\* km/h; 0 is a standing bus
Speeds == {0, 30}

\* the position a bus reports: Howrah Station
BusPositions == {<<BUS_STOPS[1].lat, BUS_STOPS[1].lng>>}

BusRoutes == {"", "S12"}

PassengerCounts == {0, 20, 21, 40, 41}

StatusUpdates ==
  { [status |-> "running", delay_reason |-> ""],
    [status |-> "delayed", delay_reason |-> "Traffic jam"] }

LocationUpdates ==
  { [bus_reg |-> r, latitude |-> p[1], longitude |-> p[2], speed |-> s, route_id |-> rt]
      : r \in Regs, p \in BusPositions, s \in Speeds, rt \in BusRoutes }

Init ==
  /\ db = EmptyDB
  /\ call = NoCall
  /\ ret = NoRet
  /\ pre = EmptyDB
  /\ hashseed = 1
  /\ eta_model = None
  /\ sessions = NoSessions

Next ==
  \/ \E req \in LocationUpdates : update_bus_location(req)
  \/ \E r \in Regs, n \in PassengerCounts :
       update_passengers([bus_reg |-> r, passenger_count |-> n])
  \/ \E r \in Regs, s \in StatusUpdates :
       update_bus_status([bus_reg |-> r, status |-> s.status, delay_reason |-> s.delay_reason])
  \/ \E r \in Regs, rt \in BusRoutes : start_trip([bus_reg |-> r, route_id |-> rt])
  \/ \E r \in Regs : end_trip(r)

Spec == Init /\ [][Next]_vars

(***************************************************************************)
(* The telemetry calls for one bus with the status texts a request can      *)
(* carry: StatusUpdate.status is a str, so any text passes validation.      *)
(***************************************************************************)
StatusRegs == {"WB01A1234"}

StatusTexts == {"running", "delayed", "breakdown", "flying", ""}

InitStatus == Init

NextStatus ==
  \/ \E req \in {u \in LocationUpdates : u.bus_reg \in StatusRegs} : update_bus_location(req)
  \/ \E r \in StatusRegs, n \in PassengerCounts :
       update_passengers([bus_reg |-> r, passenger_count |-> n])
  \/ \E r \in StatusRegs, s \in StatusTexts :
       update_bus_status([bus_reg |-> r, status |-> s, delay_reason |-> ""])
  \/ \E r \in StatusRegs, rt \in BusRoutes : start_trip([bus_reg |-> r, route_id |-> rt])
  \/ \E r \in StatusRegs : end_trip(r)

SpecStatus == InitStatus /\ [][NextStatus]_vars

(***************************************************************************)
(* resolveStop: one call of _match_stop on a query text.                    *)
(***************************************************************************)
StopNames == {BUS_STOPS[i].name : i \in 1..NumStops}

StopIds == {BUS_STOPS[i].id : i \in 1..NumStops}

AliasKeys == {MatchAliases[i][1] : i \in 1..Len(MatchAliases)}

\* texts that are no name, id or alias key: fragments, padded and unknown texts
OtherQueries ==
  { "", " ", "  Howrah Station ", "\tgaria\n", "town", "Salt", "lake", "sector",
    "road", "park", "b", "bel", "st", "new", "(nscbi)", "Garia", "Sector I",
    "cross", "nagar", "ally", "Kolkata", "xyz", "howrah stn", "salt lake city" }

Queries ==
  UNION { {n, Upper(n), Lower(n)} : n \in StopNames \cup AliasKeys \cup StopIds \cup OtherQueries }

InitMatch ==
  /\ db = EmptyDB
  /\ pre = EmptyDB
  /\ hashseed = 1
  /\ eta_model = None
  /\ sessions = NoSessions
  /\ call \in {[op |-> "match_stop", query |-> q] : q \in Queries}
  /\ ret = NoRet

ResolveStop ==
  /\ call.op = "match_stop"
  /\ ret = NoRet
  /\ ret' = [code |-> 200, stop |-> _match_stop(call.query)]
  /\ UNCHANGED <<db, call, pre, hashseed, eta_model, sessions>>

NextMatch == ResolveStop

SpecMatch == InitMatch /\ [][NextMatch]_vars

(***************************************************************************)
(* findConnections: one call of find_route_between on two query texts.      *)
(***************************************************************************)
\* the texts given as from_stop and to_stop: every stop name, an unknown text
RouteQueries == StopNames \cup {"Kolkata"}

InitRoute ==
  /\ db = EmptyDB
  /\ pre = EmptyDB
  /\ hashseed \in HashSeeds
  /\ eta_model = None
  /\ sessions = NoSessions
  /\ call \in {[op |-> "find_route", from_stop |-> a, to_stop |-> b] :
                 a \in RouteQueries, b \in RouteQueries}
  /\ ret = NoRet

FindConnections ==
  /\ call.op = "find_route"
  /\ ret = NoRet
  /\ ret' = find_route_between(call.from_stop, call.to_stop, hashseed)
  /\ UNCHANGED <<db, call, pre, hashseed, eta_model, sessions>>

NextRoute == FindConnections

SpecRoute == InitRoute /\ [][NextRoute]_vars

(***************************************************************************)
(* nearestStops: one call of get_nearest_stops.                             *)
(***************************************************************************)
\* rider positions around Esplanade and Dharmatala, 1e-4 degree
UserLats == {225533, 225541, 225554, 225573, 225584}

UserLngs == {883518, 883521, 883537, 883542, 883550}

Limits == {1, 2, 3, 5}

InitNearest ==
  /\ db = EmptyDB
  /\ pre = EmptyDB
  /\ hashseed = 1
  /\ eta_model = None
  /\ sessions = NoSessions
  /\ call \in {[op |-> "nearest", lat |-> la, lng |-> lo, limit |-> n] :
                 la \in UserLats, lo \in UserLngs, n \in Limits}
  /\ ret = NoRet

NearestStops ==
  /\ call.op = "nearest"
  /\ ret = NoRet
  /\ ret' = get_nearest_stops(call.lat, call.lng, call.limit)
  /\ UNCHANGED <<db, call, pre, hashseed, eta_model, sessions>>

NextNearest == NearestStops

SpecNearest == InitNearest /\ [][NextNearest]_vars

(***************************************************************************)
(* computeEta: one call of smart_eta on a table the telemetry calls can     *)
(* have built, at some hour of the day.                                     *)
(***************************************************************************)
\* rider positions: by Esplanade, by Howrah Station, in Salt Lake, at the
\* Howrah Station stop
EtaPositions ==
  {<<225541, 883521>>, <<225850, 883420>>, <<225700, 884300>>, <<225839, 883430>>}

EtaDestinations ==
  {"Howrah", "salt lake", "Airport", "Esplanade", " New Town ", "Chandannagar", "xyz"}

\* datetime.now().hour: night, early morning, rush hour, midday
Hours == {3, 7, 9, 12}

\* a row as update-location, update-passengers and update-status leave it
LiveRow(bus_reg, route_id, stop, speed, passenger_count, status) ==
  [LiveBusDB(bus_reg, route_id, stop.lat, stop.lng, speed)
     EXCEPT !.passenger_count = passenger_count,
            !.crowd_level = CrowdLevel(passenger_count),
            !.status = status]

\* no bus; a moving bus on AC3; a standing bus on AC3 and a moving one on S15;
\* two buses on S15 at one place; two buses on AC3 at two places
EtaTables ==
  { EmptyDB,
    PutBus(EmptyDB, "WB01A1234", LiveRow("WB01A1234", "AC3", StopNamed("Salt Lake Sector I"), 30, 0, "running")),
    PutBus(PutBus(EmptyDB, "WB01A1234",
                  LiveRow("WB01A1234", "AC3", StopNamed("Rajarhat"), 0, 41, "delayed")),
           "WB02B5678", LiveRow("WB02B5678", "S15", StopNamed("Salt Lake Gate"), 12, 21, "running")),
    PutBus(PutBus(EmptyDB, "WB01A1234",
                  LiveRow("WB01A1234", "S15", StopNamed("Nicco Park"), 30, 0, "running")),
           "WB02B5678", LiveRow("WB02B5678", "S15", StopNamed("Nicco Park"), 45, 0, "running")),
    PutBus(PutBus(EmptyDB, "WB01A1234",
                  LiveRow("WB01A1234", "AC3", StopNamed("Rajarhat"), 30, 0, "running")),
           "WB02B5678", LiveRow("WB02B5678", "AC3", StopNamed("Salt Lake Sector I"), 20, 21, "running")) }

\* the regressor of model.pkl by its two predictions for a call, in hundredths
EtaModels == {None, [bus_travel |-> 1234, live_eta |-> 675]}

InitEta ==
  /\ db \in EtaTables
  /\ pre = db
  /\ hashseed \in HashSeeds
  /\ eta_model \in EtaModels
  /\ sessions = NoSessions
  /\ call \in {[op |-> "smart_eta", user_lat |-> p[1], user_lng |-> p[2],
                destination |-> dest, hour_of_day |-> h] :
                 p \in EtaPositions, dest \in EtaDestinations, h \in Hours}
  /\ ret = NoRet

ComputeEta ==
  /\ call.op = "smart_eta"
  /\ ret = NoRet
  /\ ret' \in smart_eta(call.user_lat, call.user_lng, call.destination, db,
                        hashseed, call.hour_of_day, eta_model)
  /\ UNCHANGED <<db, call, pre, hashseed, eta_model, sessions>>

NextEta == ComputeEta

SpecEta == InitEta /\ [][NextEta]_vars

(***************************************************************************)
(* computeEta on the texts resolveStop is given: one call of smart_eta      *)
(* from Esplanade at midday, no bus being live.                             *)
(***************************************************************************)
DestinationQueries == StopNames \cup StopIds \cup AliasKeys \cup OtherQueries

InitDestination ==
  /\ db = EmptyDB
  /\ pre = EmptyDB
  /\ hashseed = 1
  /\ eta_model = None
  /\ sessions = NoSessions
  /\ call \in {[op |-> "smart_eta", user_lat |-> 225541, user_lng |-> 883521,
                destination |-> q, hour_of_day |-> 12] : q \in DestinationQueries}
  /\ ret = NoRet

NextDestination == ComputeEta

SpecDestination == InitDestination /\ [][NextDestination]_vars

(***************************************************************************)
(* The telemetry endpoints served by several threads at once.  The          *)
(* endpoints are plain `def` functions, which the server runs in a thread   *)
(* pool, each request with a Session of its own (get_db) on one SQLite      *)
(* file.  A handler is two steps on the table: the SELECT of                *)
(* `db.query(LiveBusDB).filter(...).first()`, and the transaction of        *)
(* `db.commit()`, which flushes the Session's pending INSERT, UPDATE or     *)
(* DELETE; update_passengers and update_bus_status then read attributes of  *)
(* the row for their answer, which the commit has expired, so the Session   *)
(* loads the row again.  Requests of other threads come between the steps.  *)
(***************************************************************************)
\* the attributes a handler assigns on the row it has loaded
Assigned(op, req, bus) ==
  CASE op = "update_location" ->
         [latitude |-> req.latitude, longitude |-> req.longitude, speed |-> req.speed,
          route_id |-> IF req.route_id # "" THEN req.route_id ELSE bus.route_id]
    [] op = "update_passengers" ->
         [passenger_count |-> req.passenger_count,
          crowd_level |-> CrowdLevel(req.passenger_count)]
    [] op = "update_status" ->
         [status |-> req.status, delay_reason |-> req.delay_reason]
    [] op = "start_trip" ->
         [status |-> "running", route_id |-> req.route_id, passenger_count |-> 0,
          crowd_level |-> "Low", delay_reason |-> ""]

\* the row the handler adds when the query found none
Inserted(op, req) ==
  IF op = "update_location"
    THEN LiveBusDB(req.bus_reg, req.route_id, req.latitude, req.longitude, req.speed)
    ELSE LiveBusDB(req.bus_reg, req.route_id, 0, 0, 0)

\* the UPDATE the Session flushes for a loaded row: it sets the columns whose
\* assigned value differs from the value loaded, and no other column
FlushedRow(row, bus, assigned) ==
  [f \in DOMAIN row |->
     IF f \in DOMAIN assigned /\ assigned[f] # bus[f] THEN assigned[f] ELSE row[f]]

\* the answer of a handler that reaches its return statement, bus being the
\* row as the Session holds it then
Answer(op, req, bus) ==
  CASE op = "update_location" -> [code |-> 200, status |-> "ok", bus_reg |-> req.bus_reg]
    [] op = "update_passengers" ->
         [code |-> 200, status |-> "ok",
          crowd_level |-> bus.crowd_level,
          passenger_count |-> bus.passenger_count]
    [] op = "update_status" -> [code |-> 200, status |-> "ok", bus_status |-> bus.status]
    [] op = "start_trip" -> [code |-> 200, status |-> "trip_started", bus_reg |-> req.bus_reg]
    [] op = "end_trip" -> [code |-> 200, status |-> "trip_ended", bus_reg |-> req.bus_reg]

\* the answer to a request whose handler raised an exception that is no
\* HTTPException (IntegrityError, StaleDataError, ObjectDeletedError)
ServerError == [code |-> 500, detail |-> "Internal Server Error"]

\* thread w takes a request and runs the handler up to its db.commit(), or to
\* its end when the handler has nothing to commit
Query(w, op, req) ==
  /\ sessions[w] = Idle
  /\ UNCHANGED <<db, hashseed, eta_model>>
  /\ IF ~HasBus(db, req.bus_reg) /\ op \in {"update_passengers", "update_status", "end_trip"}
       THEN /\ sessions' = sessions
            /\ call' = [op |-> op, req |-> req]
            /\ pre' = db
            /\ ret' = IF op = "end_trip" THEN Answer(op, req, None)
                      ELSE [code |-> 404, detail |-> "Bus not found"]
       ELSE /\ sessions' = [sessions EXCEPT ![w] =
                              [pc |-> "loaded", op |-> op, req |-> req,
                               bus |-> IF HasBus(db, req.bus_reg) THEN db[req.bus_reg]
                                       ELSE None]]
            /\ UNCHANGED <<call, ret, pre>>

\* the handlers that read the row again after db.commit()
Refreshing == {"update_passengers", "update_status"}

CommitMerging(w) ==
  LET s == sessions[w]
      reg == s.req.bus_reg
      failed == s.op # "end_trip" /\ s.bus = None /\ HasBus(db, reg)
  IN /\ s.pc = "loaded"
     /\ UNCHANGED <<hashseed, eta_model>>
     /\ db' = IF failed THEN db
              ELSE IF s.op = "end_trip"
                THEN (IF HasBus(db, reg) THEN DeleteBus(db, reg) ELSE db)
              ELSE IF s.bus = None THEN PutBus(db, reg, Inserted(s.op, s.req))
              ELSE PutBus(db, reg,
                          FlushedRow(IF HasBus(db, reg) THEN db[reg] ELSE s.bus,
                                     s.bus, Assigned(s.op, s.req, s.bus)))
     /\ IF ~failed /\ s.op \in Refreshing
          THEN /\ sessions' = [sessions EXCEPT ![w].pc = "committed"]
               /\ UNCHANGED <<call, ret, pre>>
          ELSE /\ sessions' = [sessions EXCEPT ![w] = Idle]
               /\ call' = [op |-> s.op, req |-> s.req]
               /\ pre' = db
               /\ ret' = IF failed THEN ServerError ELSE Answer(s.op, s.req, s.bus)

\* db.commit() of thread w, and the rest of its handler when that reads no
\* attribute of the row
Commit(w) ==
  LET s == sessions[w]
      reg == s.req.bus_reg
      \* INSERT: the primary key rejects a second row for the registration;
      \* UPDATE ... WHERE bus_reg = ?: no row matched raises StaleDataError;
      \* DELETE ... WHERE bus_reg = ?: no row matched is only a warning
      failed == s.op # "end_trip" /\ ((s.bus = None) = HasBus(db, reg))
  IN /\ s.pc = "loaded"
     /\ UNCHANGED <<hashseed, eta_model>>
     /\ db' = IF failed THEN db
              ELSE IF s.op = "end_trip"
                THEN (IF HasBus(db, reg) THEN DeleteBus(db, reg) ELSE db)
              ELSE IF s.bus = None THEN PutBus(db, reg, Inserted(s.op, s.req))
              ELSE PutBus(db, reg, FlushedRow(db[reg], s.bus, Assigned(s.op, s.req, s.bus)))
     /\ IF ~failed /\ s.op \in Refreshing
          THEN /\ sessions' = [sessions EXCEPT ![w].pc = "committed"]
               /\ UNCHANGED <<call, ret, pre>>
          ELSE /\ sessions' = [sessions EXCEPT ![w] = Idle]
               /\ call' = [op |-> s.op, req |-> s.req]
               /\ pre' = db
               /\ ret' = IF failed THEN ServerError ELSE Answer(s.op, s.req, s.bus)

\* the return statement of update_passengers and update_bus_status: the
\* Session loads the row again; a row gone by then raises ObjectDeletedError
Return(w) ==
  LET s == sessions[w]
      reg == s.req.bus_reg
  IN /\ s.pc = "committed"
     /\ sessions' = [sessions EXCEPT ![w] = Idle]
     /\ UNCHANGED <<db, hashseed, eta_model>>
     /\ call' = [op |-> s.op, req |-> s.req]
     /\ pre' = db
     /\ ret' = IF HasBus(db, reg) THEN Answer(s.op, s.req, db[reg]) ELSE ServerError

\* GET /bus/live: one SELECT of the whole table
get_live_buses ==
  /\ call' = [op |-> "get_live_buses"]
  /\ pre' = db
  /\ ret' = [code |-> 200,
             buses |-> {[bus_reg |-> db[r].bus_reg, route_id |-> db[r].route_id,
                         latitude |-> db[r].latitude, longitude |-> db[r].longitude,
                         speed |-> db[r].speed,
                         passenger_count |-> db[r].passenger_count,
                         crowd_level |-> db[r].crowd_level, status |-> db[r].status,
                         delay_reason |-> db[r].delay_reason] : r \in DOMAIN db}]
  /\ UNCHANGED <<db, hashseed, eta_model, sessions>>

\* one bus
ConcurrentRegs == {"WB01A1234"}

\* the position the bus reports: Howrah Station
ConcurrentPositions == {<<BUS_STOPS[1].lat, BUS_STOPS[1].lng>>}

ConcurrentCounts == {15, 30}

ConcurrentRequests ==
  {<<"update_location", [bus_reg |-> r, latitude |-> p[1], longitude |-> p[2],
                          speed |-> 30, route_id |-> "S12"]>> :
     r \in ConcurrentRegs, p \in ConcurrentPositions}
  \cup {<<"update_passengers", [bus_reg |-> r, passenger_count |-> n]>> :
          r \in ConcurrentRegs, n \in ConcurrentCounts}
  \cup {<<"update_status", [bus_reg |-> r, status |-> "delayed",
                            delay_reason |-> "Traffic jam"]>> : r \in ConcurrentRegs}
  \cup {<<"start_trip", [bus_reg |-> r, route_id |-> "S12"]>> : r \in ConcurrentRegs}
  \cup {<<"end_trip", [bus_reg |-> r]>> : r \in ConcurrentRegs}

InitConcurrent ==
  /\ db = EmptyDB
  /\ call = NoCall
  /\ ret = NoRet
  /\ pre = EmptyDB
  /\ hashseed = 1
  /\ eta_model = None
  /\ sessions = NoSessions

NextConcurrent ==
  \/ \E w \in Workers, c \in ConcurrentRequests : Query(w, c[1], c[2])
  \/ \E w \in Workers : Commit(w)
  \/ \E w \in Workers : Return(w)
  \/ get_live_buses

SpecConcurrent == InitConcurrent /\ [][NextConcurrent]_vars

(***************************************************************************)
(* The service as a whole, one request after another: the telemetry         *)
(* endpoints and the queries on one table.                                  *)
(***************************************************************************)
\* a query has come in and has no answer yet
Pending == call # NoCall /\ ret = NoRet

ServiceRegs == {"WB01A1234", "WB02B5678"}

\* the bus reports from Salt Lake Gate on S15
ServiceLocations ==
  {[bus_reg |-> r, latitude |-> StopNamed("Salt Lake Gate").lat,
    longitude |-> StopNamed("Salt Lake Gate").lng, speed |-> 12, route_id |-> "S15"] :
     r \in ServiceRegs}

\* the queries: resolveStop, findConnections, nearestStops, computeEta
ServiceQueries ==
  { [op |-> "match_stop", query |-> "howrah"],
    [op |-> "find_route", from_stop |-> "Howrah Station", to_stop |-> "New Town"],
    [op |-> "nearest", lat |-> 225541, lng |-> 883521, limit |-> 3],
    [op |-> "smart_eta", user_lat |-> 225700, user_lng |-> 884300,
     destination |-> "salt lake", hour_of_day |-> 9],
    [op |-> "smart_eta", user_lat |-> 225541, user_lng |-> 883521,
     destination |-> "xyz", hour_of_day |-> 12] }

\* a query arrives
ReceiveQuery(c) ==
  /\ call' = c
  /\ ret' = NoRet
  /\ pre' = db
  /\ UNCHANGED <<db, hashseed, eta_model, sessions>>

InitService ==
  /\ db = EmptyDB
  /\ call = NoCall
  /\ ret = NoRet
  /\ pre = EmptyDB
  /\ hashseed = 1
  /\ eta_model = None
  /\ sessions = NoSessions

NextService ==
  \/ ~Pending /\ \E req \in ServiceLocations : update_bus_location(req)
  \/ ~Pending /\ \E r \in ServiceRegs :
                   update_passengers([bus_reg |-> r, passenger_count |-> 41])
  \/ ~Pending /\ \E r \in ServiceRegs :
                   update_bus_status([bus_reg |-> r, status |-> "delayed",
                                      delay_reason |-> "Traffic jam"])
  \/ ~Pending /\ \E r \in ServiceRegs : start_trip([bus_reg |-> r, route_id |-> "AC3"])
  \/ ~Pending /\ \E r \in ServiceRegs : end_trip(r)
  \/ ~Pending /\ get_live_buses
  \/ ~Pending /\ \E c \in ServiceQueries : ReceiveQuery(c)
  \/ ResolveStop
  \/ FindConnections
  \/ NearestStops
  \/ ComputeEta

SpecService == InitService /\ [][NextService]_vars

(***************************************************************************)
(* Claims about the live-bus store, checked under Spec.                     *)
(***************************************************************************)

\* C1: in every reachable state each live bus's stored crowd level is the
\* threshold function of its stored passenger count: count <= 20 Low,
\* 21..40 Medium, above 40 High (0/20/21/40/41 are Low/Low/Medium/Medium/High).
C1_CrowdLevelIsThreshold ==
  \A r \in DOMAIN db :
    LET n == db[r].passenger_count
        c == db[r].crowd_level
    IN /\ c = (IF n <= 20 THEN "Low" ELSE IF n <= 40 THEN "Medium" ELSE "High")
       /\ n \in {0, 20} => c = "Low"
       /\ n \in {21, 40} => c = "Medium"
       /\ n = 41 => c = "High"

\* two buses, one updated to 41 passengers and one holding 20
C1_Witness ==
  /\ call.op = "update_passengers"
  /\ call.req.passenger_count = 41
  /\ ret.code = 200
  /\ \E r \in DOMAIN db : db[r].passenger_count = 41 /\ db[r].crowd_level = "High"
  /\ \E r \in DOMAIN db : db[r].passenger_count = 20 /\ db[r].crowd_level = "Low"

\* C9 (as stated): once update-passenger-count has set a bus to 41, its crowd
\* level stays High across every call that is not an update-passenger-count
\* for that registration.
C9_HighUntilNextCountUpdate ==
  \A r \in DOMAIN pre :
    ( /\ pre[r].passenger_count = 41
      /\ pre[r].crowd_level = "High"
      /\ ~(call.op = "update_passengers" /\ call.req.bus_reg = r) )
    => (r \in DOMAIN db /\ db[r].crowd_level = "High")

\* C9 (amended): update-passenger-count to 41 on a Low bus makes it High, and
\* it stays High across every call that is not an update-passenger-count, a
\* start-trip or an end-trip for that registration.
C9_HighUntilCountUpdateOrTrip ==
  /\ \A r \in DOMAIN pre :
       ( /\ call.op = "update_passengers"
         /\ call.req.bus_reg = r
         /\ call.req.passenger_count = 41
         /\ pre[r].crowd_level = "Low" )
       => (r \in DOMAIN db /\ db[r].passenger_count = 41 /\ db[r].crowd_level = "High")
  /\ \A r \in DOMAIN pre :
       ( /\ pre[r].passenger_count = 41
         /\ pre[r].crowd_level = "High"
         /\ ~(/\ call.op \in {"update_passengers", "start_trip", "end_trip"}
              /\ call.req.bus_reg = r) )
       => (r \in DOMAIN db /\ db[r].passenger_count = 41 /\ db[r].crowd_level = "High")

\* a location update reaches a bus that holds 41 passengers and leaves it High
C9_Witness ==
  /\ call.op = "update_location"
  /\ call.req.bus_reg \in DOMAIN pre
  /\ pre[call.req.bus_reg].passenger_count = 41
  /\ pre[call.req.bus_reg].crowd_level = "High"
  /\ db[call.req.bus_reg].crowd_level = "High"

\* C10: end-trip answers success whether or not the registration has a row;
\* without a row the table is unchanged, with one exactly that row is removed,
\* so a second end-trip finds no row and changes nothing.
C10_EndTripIdempotent ==
  call.op = "end_trip" =>
    LET r == call.req.bus_reg IN
    /\ ret.code = 200
    /\ ret.status = "trip_ended"
    /\ r \notin DOMAIN db
    /\ r \notin DOMAIN pre => db = pre
    /\ r \in DOMAIN pre =>
         /\ DOMAIN db = DOMAIN pre \ {r}
         /\ \A x \in DOMAIN db : db[x] = pre[x]

\* end-trip for a registration without a row, another bus being live
C10_Witness ==
  /\ call.op = "end_trip"
  /\ call.req.bus_reg \notin DOMAIN pre
  /\ pre # EmptyDB
  /\ db = pre
  /\ ret.code = 200

(***************************************************************************)
(* Claims about findConnections, checked under SpecRoute.                   *)
(***************************************************************************)
\* the route ids two stops share that are routes of the catalog
SharedRoutes(a, b) == {rid \in RouteSet(a) \cap RouteSet(b) : RouteById(rid) # None}

FoundRoute == call.op = "find_route" /\ ret.code = 200

\* C2: for every pair of resolvable stops the result list holds no transfer
\* result when it holds a direct one or when the two stops share a route: a
\* transfer result appears only when the shared routes give no direct result.
C2_NoTransferWhenDirect ==
  FoundRoute =>
    LET from_s == StopNamed(ret.from)
        to_s == StopNamed(ret.to)
        transfer == \E k \in 1..Len(ret.results) : ret.results[k].transfers = 1
        direct == \E k \in 1..Len(ret.results) : ret.results[k].transfers = 0
    IN /\ transfer => ~direct /\ SharedRoutes(from_s, to_s) = {}
       /\ SharedRoutes(from_s, to_s) # {} =>
            \A k \in 1..Len(ret.results) :
              /\ ret.results[k].transfers = 0
              /\ ret.results[k].route.id \in SharedRoutes(from_s, to_s)

\* a pair with a shared route for which the transfer search would also find
\* connections: only direct results are returned
C2_Witness ==
  /\ FoundRoute
  /\ ret.from # ret.to
  /\ ret.results # << >>
  /\ \A k \in 1..Len(ret.results) : ret.results[k].transfers = 0
  /\ TransferLoop(StopNamed(ret.from), StopNamed(ret.to), hashseed) # << >>

\* C3: for every pair of resolvable stops at most 5 results are returned, in
\* non-decreasing order of (transfers, estimated_time_min); the transfer
\* results returned are distinct candidates of the transfer search and the
\* k-th of them takes no longer than the k-th fastest candidate, so of more
\* than 5 candidates the 5 kept are ones with the smallest estimated times.
C3_AtMostFiveSorted ==
  FoundRoute =>
    LET res == ret.results
        cand == TransferLoop(StopNamed(ret.from), StopNamed(ret.to), hashseed)
        time(x) == x.estimated_time_min
    IN /\ Len(res) <= 5
       /\ \A k \in 1..(Len(res) - 1) :
            \/ res[k].transfers < res[k + 1].transfers
            \/ /\ res[k].transfers = res[k + 1].transfers
               /\ time(res[k]) <= time(res[k + 1])
       /\ (res # << >> /\ res[1].transfers = 1) =>
            /\ Len(res) = Min(5, Len(cand))
            /\ \A k \in 1..Len(res) : \E j \in 1..Len(cand) : cand[j] = res[k]
            /\ \A k, l \in 1..Len(res) : k # l => res[k] # res[l]
            /\ \A k \in 1..Len(res) :
                 Cardinality({j \in 1..Len(cand) : time(cand[j]) < time(res[k])}) <= k - 1

\* more than 5 transfer candidates, found in an order that is not by time, one
\* of the first five found being slower than the slowest result kept
C3_Witness ==
  /\ FoundRoute
  /\ Len(ret.results) = 5
  /\ ret.results[1].transfers = 1
  /\ LET cand == TransferLoop(StopNamed(ret.from), StopNamed(ret.to), hashseed)
     IN /\ Len(cand) > 5
        /\ \E j \in 1..5 : cand[j].estimated_time_min > ret.results[5].estimated_time_min

(***************************************************************************)
(* Claims about resolveStop, checked under SpecMatch.                       *)
(***************************************************************************)
Resolved == call.op = "match_stop" /\ ret.code = 200

\* C4: for every stop S of the catalog, resolveStop(S.name) returns S itself,
\* not another stop whose name or id also matches the text.
C4_ExactNameIdentity ==
  Resolved =>
    \A i \in 1..NumStops : call.query = BUS_STOPS[i].name => ret.stop = BUS_STOPS[i]

\* the name of a stop that is also a part of the name of an earlier stop
C4_Witness ==
  /\ Resolved
  /\ \E i, j \in 1..NumStops :
       /\ j < i
       /\ call.query = BUS_STOPS[i].name
       /\ Contains(Lower(call.query), Lower(BUS_STOPS[j].name))
       /\ ret.stop = BUS_STOPS[i]

\* C5: resolveStop is case-insensitive: a text, its upper-cased form and its
\* lower-cased form resolve to the same stop or all to NotFound; so do any two
\* texts that differ only in letter case, their lower-cased forms being equal.
C5_CaseInsensitive ==
  Resolved =>
    /\ ret.stop = _match_stop(Upper(call.query))
    /\ ret.stop = _match_stop(Lower(call.query))
    /\ \A i \in 1..NumStops :
         call.query \in {Upper(BUS_STOPS[i].name), Lower(BUS_STOPS[i].name)}
           => ret.stop = BUS_STOPS[i]

\* an upper-cased stop name that differs from the name resolves to the stop
C5_Witness ==
  /\ Resolved
  /\ \E i \in 1..NumStops :
       /\ call.query = Upper(BUS_STOPS[i].name)
       /\ call.query # BUS_STOPS[i].name
       /\ call.query # Lower(BUS_STOPS[i].name)
       /\ ret.stop = BUS_STOPS[i]

\* C6: alias expansion goes before substring scanning: an alias key that is
\* no stop name and no stop id resolves to the stop whose name is the alias's
\* canonical name, also when shorter stop names contain the key ("newtown":
\* New Town City Centre, "garia": Garia Station, "salt lake": Salt Lake Sector V).
C6_AliasBeforeSubstring ==
  Resolved =>
    /\ \A k \in 1..Len(MatchAliases) :
         ( /\ call.query = MatchAliases[k][1]
           /\ \A i \in 1..NumStops :
                Lower(BUS_STOPS[i].name) # call.query /\ BUS_STOPS[i].id # call.query )
         => (ret.stop # None /\ Lower(ret.stop.name) = MatchAliases[k][2])
    /\ call.query = "newtown" => ret.stop # None /\ ret.stop.name = "New Town City Centre"
    /\ call.query = "garia" => ret.stop # None /\ ret.stop.name = "Garia Station"
    /\ call.query = "salt lake" => ret.stop # None /\ ret.stop.name = "Salt Lake Sector V"

\* "garia" resolves to Garia Station although the shorter name Gariahat has it
C6_Witness ==
  /\ Resolved
  /\ call.query = "garia"
  /\ ret.stop # None
  /\ ret.stop.name = "Garia Station"
  /\ \E i \in 1..NumStops :
       /\ Contains("garia", Lower(BUS_STOPS[i].name))
       /\ Len(BUS_STOPS[i].name) < Len("Garia Station")

(***************************************************************************)
(* Claims about nearestStops, checked under SpecNearest.                    *)
(***************************************************************************)
\* C7 (as stated): the stops returned are in non-decreasing order of their
\* unrounded distance from the rider, and the first of them is no farther
\* than any stop that is not returned.
C7_RankedByUnroundedDistance ==
  (call.op = "nearest" /\ ret.code = 200) =>
    LET dist(s) == haversine(call.lat, call.lng, s.lat, s.lng)
        stops == ret.stops
        listed == {stops[k].id : k \in 1..Len(stops)}
    IN /\ \A k \in 1..(Len(stops) - 1) : dist(stops[k]) <= dist(stops[k + 1])
       /\ \A i \in 1..NumStops :
            (stops # << >> /\ BUS_STOPS[i].id \notin listed)
              => dist(stops[1]) <= dist(BUS_STOPS[i])

(***************************************************************************)
(* Claims about computeEta, checked under SpecEta.                          *)
(***************************************************************************)
\* C8: in every successful computeEta result total_min is walk_time_min +
\* wait_time_min + bus_travel_min, all in tenths of a minute, for the wait
\* the result reports: half the headway of the chosen route when the table
\* holds no bus on that route, the live ETA of the reported live bus when it
\* holds one.
C8_TotalIsSumOfParts ==
  (call.op = "smart_eta" /\ ret.code = 200) =>
    LET eta == ret.eta
        on_route == {r \in DOMAIN db : db[r].route_id = ret.bus_route.id}
    IN /\ eta.total_min = eta.walk_time_min + eta.wait_time_min + eta.bus_travel_min
       /\ eta.walk_time_min = ret.pickup_stop.walk_time_min
       /\ on_route = {} =>
            /\ ret.live_bus = None
            /\ 2 * eta.wait_time_min = 10 * ret.bus_route.frequency_min
       /\ on_route # {} =>
            /\ ret.live_bus # None
            /\ ret.live_bus.bus_reg \in on_route
            /\ eta.wait_time_min = ret.live_bus.live_eta_min

\* a live bus on the chosen route whose ETA by the formula differs from half
\* the headway
C8_Witness ==
  /\ call.op = "smart_eta"
  /\ ret.code = 200
  /\ ret.live_bus # None
  /\ ret.eta.source = "formula"
  /\ ret.eta.wait_time_min = ret.live_bus.live_eta_min
  /\ ret.eta.wait_time_min # 5 * ret.bus_route.frequency_min
  /\ ret.eta.walk_time_min > 0
  /\ ret.eta.bus_travel_min > 0

\* the positions of the direct results in the answer
DirectPositions == {k \in 1..Len(ret.results) : ret.results[k].transfers = 0}

\* 2000000 * (dist * 3.5) for the dist of the direct results, the distance
\* between the two stops in km
ScaledMinutes == 7 * FlatDistance(StopNamed(ret.from), StopNamed(ret.to))

\* the direct results are one for each shared route up to 5, each with a
\* shared route of its own, that route's minimum fare and no transfer
DirectResultsPerSharedRoute ==
  LET shared == RouteSet(StopNamed(ret.from)) \cap RouteSet(StopNamed(ret.to))
      res == ret.results
  IN /\ Cardinality(DirectPositions) = Min(5, Cardinality(shared))
     /\ \A k \in DirectPositions :
          /\ res[k].type = "direct"
          /\ res[k].route.id \in shared
          /\ res[k].route \in {BUS_ROUTES[i] : i \in 1..Len(BUS_ROUTES)}
          /\ res[k].estimated_fare = res[k].route.fare_min
          /\ res[k].estimated_time_min >= 5
     /\ \A k, l \in DirectPositions : k # l => res[k].route.id # res[l].route.id

\* C18 (as stated): findConnections gives one direct result for each route the
\* two stops share, up to 5, each with transfers 0, a route serving both
\* stops, that route's minimum fare, and the time max(5, round(distance_km *
\* 3.5)): the whole number nearest to distance_km * 3.5, or 5 if that is less.
C18_DirectTimeRounded ==
  FoundRoute =>
    /\ DirectResultsPerSharedRoute
    /\ \A k \in DirectPositions :
         LET t == ret.results[k].estimated_time_min IN
         /\ 2000000 * t + 1000000 > ScaledMinutes
         /\ t > 5 => 2000000 * t - 1000000 <= ScaledMinutes

\* C18 (amended): as stated, but the time is max(5, int(distance_km * 3.5)):
\* distance_km * 3.5 with its fraction dropped, or 5 if that is less.
C18_DirectTimeTruncated ==
  FoundRoute =>
    /\ DirectResultsPerSharedRoute
    /\ \A k \in DirectPositions :
         LET t == ret.results[k].estimated_time_min IN
         /\ 2000000 * (t + 1) > ScaledMinutes
         /\ t > 5 => 2000000 * t <= ScaledMinutes

\* two stops that share several routes, more than 5 minutes apart, where
\* distance_km * 3.5 has a fraction of a half or more
C18_Witness ==
  /\ FoundRoute
  /\ Cardinality(DirectPositions) >= 2
  /\ ret.results[1].estimated_time_min > 5
  /\ ScaledMinutes % 2000000 >= 1000000

\* C19: every transfer result names a transfer stop of the catalog that is
\* neither of the two stops asked for, a first route that serves the origin
\* and the transfer stop, a second route that serves the transfer stop and
\* the destination, transfers 1, and as fare the sum of the two routes'
\* minimum fares.
C19_TransferResultsAreConnections ==
  FoundRoute =>
    \A k \in 1..Len(ret.results) :
      LET x == ret.results[k] IN
      (x.type = "transfer" \/ x.transfers = 1) =>
        /\ x.type = "transfer"
        /\ x.transfers = 1
        /\ x.transfer_stop \in StopNames \ {ret.from, ret.to}
        /\ StopNamed(x.transfer_stop).id \notin {StopNamed(ret.from).id, StopNamed(ret.to).id}
        /\ x.leg1_route \in {BUS_ROUTES[i] : i \in 1..Len(BUS_ROUTES)}
        /\ x.leg2_route \in {BUS_ROUTES[i] : i \in 1..Len(BUS_ROUTES)}
        /\ x.leg1_route.id \in RouteSet(StopNamed(ret.from))
        /\ x.leg1_route.id \in RouteSet(StopNamed(x.transfer_stop))
        /\ x.leg2_route.id \in RouteSet(StopNamed(x.transfer_stop))
        /\ x.leg2_route.id \in RouteSet(StopNamed(ret.to))
        /\ x.estimated_fare = x.leg1_route.fare_min + x.leg2_route.fare_min

\* five transfer results, the first changing between two different routes
C19_Witness ==
  /\ FoundRoute
  /\ Len(ret.results) = 5
  /\ ret.results[1].transfers = 1
  /\ ret.results[1].leg1_route.id # ret.results[1].leg2_route.id
  /\ ret.results[1].leg1_route.fare_min # ret.results[1].leg2_route.fare_min

(***************************************************************************)
(* Further claims about the live-bus store, checked under Spec.             *)
(***************************************************************************)
\* C11: update-location for a registration without a row adds exactly one
\* row, keyed by it, holding the request's position, speed and route with
\* passenger count 0 and crowd level Low; for a registration with a row it
\* adds no row.
C11_UpsertCreatesOneRecord ==
  call.op = "update_location" =>
    LET r == call.req.bus_reg IN
    /\ r \notin DOMAIN pre =>
         /\ DOMAIN db = DOMAIN pre \cup {r}
         /\ Cardinality(DOMAIN db) = Cardinality(DOMAIN pre) + 1
         /\ db[r].bus_reg = r
         /\ db[r].latitude = call.req.latitude
         /\ db[r].longitude = call.req.longitude
         /\ db[r].speed = call.req.speed
         /\ db[r].route_id = call.req.route_id
         /\ db[r].passenger_count = 0
         /\ db[r].crowd_level = "Low"
    /\ r \in DOMAIN pre => DOMAIN db = DOMAIN pre

\* a moving bus on S12 reports its position for the first time while another
\* bus is live
C11_Witness ==
  /\ call.op = "update_location"
  /\ call.req.bus_reg \notin DOMAIN pre
  /\ call.req.route_id = "S12"
  /\ call.req.speed = 30
  /\ pre # EmptyDB
  /\ Cardinality(DOMAIN db) = 2

\* C13: update-passenger-count and update-status for a registration without
\* a row answer 404 "Bus not found", add no row and leave every row as it was.
C13_UnknownBusLeavesStore ==
  ( /\ call.op \in {"update_passengers", "update_status"}
    /\ call.req.bus_reg \notin DOMAIN pre )
  => /\ ret.code = 404
     /\ ret.detail = "Bus not found"
     /\ DOMAIN db = DOMAIN pre
     /\ \A r \in DOMAIN db : db[r] = pre[r]

\* a status update for a registration without a row, another bus being live
C13_Witness ==
  /\ call.op = "update_status"
  /\ call.req.bus_reg \notin DOMAIN pre
  /\ pre # EmptyDB
  /\ ret.code = 404

\* C16: a telemetry call that repeats the call before it, the same operation
\* with the same arguments, leaves the table as the first of the two left it:
\* the same registrations with the same values in every column (the time
\* columns aside).
C16_SameCallTwiceChangesNothing ==
  [][(call.op # "none" /\ call' = call) => db' = db]_vars

\* the second of two equal passenger-count updates: it found the row as it
\* leaves it
C16_Witness ==
  /\ call.op = "update_passengers"
  /\ call.req.passenger_count = 41
  /\ ret.code = 200
  /\ pre = db
  /\ db[call.req.bus_reg].crowd_level = "High"

(***************************************************************************)
(* Claims about telemetry calls served at the same time, checked under      *)
(* SpecConcurrent.                                                          *)
(***************************************************************************)
\* C12: under every interleaving of telemetry calls each update-location
\* call answers success, also when two calls for one registration without a
\* row both find no row before either commits; and the table holds at most
\* one row for a registration.
C12_UpsertsAlwaysSucceed ==
  /\ call.op = "update_location" => (ret.code = 200 /\ ret.status = "ok")
  /\ \A r \in DOMAIN db : db[r].bus_reg = r

\* C14: a list-all that runs among telemetry writes sees, in every row, the
\* attributes one call assigns together as one call assigned them: the crowd
\* level that belongs to the passenger count, and a status with its own delay
\* reason.
C14_ReadsSeeWholeWrites ==
  call.op = "get_live_buses" =>
    \A b \in ret.buses :
      /\ b.crowd_level = CrowdLevel(b.passenger_count)
      /\ <<b.status, b.delay_reason>> \in {<<"running", "">>, <<"delayed", "Traffic jam">>}

(***************************************************************************)
(* Claims about the service as a whole, checked under SpecService.          *)
(***************************************************************************)
\* C15: a telemetry call for registration R leaves every row of another
\* registration as it was, adding and removing none of them; resolveStop,
\* nearestStops, findConnections, computeEta and list-all leave the table as
\* they found it.
C15_OnlyTheCalledRecordChanges ==
  /\ call.op \in {"update_location", "update_passengers", "update_status",
                  "start_trip", "end_trip"} =>
       \A r \in (DOMAIN pre \cup DOMAIN db) \ {call.req.bus_reg} :
         r \in DOMAIN pre /\ r \in DOMAIN db /\ db[r] = pre[r]
  /\ call.op \in {"match_stop", "find_route", "nearest", "smart_eta", "get_live_buses"} =>
       db = pre

\* a passenger count reaches one of two live buses and changes its row alone
C15_Witness ==
  /\ call.op = "update_passengers"
  /\ ret.code = 200
  /\ Cardinality(DOMAIN db) = 2
  /\ db[call.req.bus_reg] # pre[call.req.bus_reg]
  /\ \E r \in DOMAIN db : r # call.req.bus_reg /\ db[r].passenger_count = 0

(***************************************************************************)
(* Claims about computeEta's destination, checked under SpecDestination.    *)
(***************************************************************************)
\* C17: the stop computeEta takes as destination for a text is the stop
\* resolveStop gives for it, and computeEta answers that it could not find
\* the destination exactly when resolveStop finds no stop; so the name of a
\* catalog stop as destination selects that stop.
C17_DestinationAsResolveStop ==
  (call.op = "smart_eta" /\ ret # NoRet) =>
    LET s == _match_stop(call.destination) IN
    /\ EtaDestination(call.destination) = s
    /\ (ret.code = 404 /\ ret.detail = "Could not find destination") <=> (s = None)
    /\ ret.code = 200 => (s # None /\ ret.destination_stop.name = s.name)
    /\ (call.destination \in StopNames /\ ret.code = 200) =>
         ret.destination_stop.name = call.destination

(***************************************************************************)
(* Claims about computeEta's pickup stop, checked under SpecEta.            *)
(***************************************************************************)
\* the catalog positions of the n stops nearest the rider, by the distance
\* as haversine gives it, d[i] being that of stop i
NearestTo(d, n) ==
  {i \in 1..NumStops :
     Cardinality({j \in 1..NumStops : d[j] < d[i] \/ (d[j] = d[i] /\ j < i)}) < n}

\* the stop of S nearest the rider
NearestOf(d, S) == CHOOSE i \in S : \A j \in S : d[i] < d[j] \/ (d[i] = d[j] /\ i <= j)

\* stops a and b are served by one route
ShareRoute(a, b) == RouteSet(a) \cap RouteSet(b) # {}

\* C20: for a destination text that resolves to a stop D, computeEta picks up
\* at the nearest stop, among the 8 stops nearest the rider and other than D,
\* that shares a route with D; if none of the 8 does, at the first of the 5
\* nearest stops from which a route leads to some third stop that shares a
\* route with D; and it answers "no bus route found" exactly when neither
\* search finds a stop.
C20_PickupIsNearestConnected ==
  (call.op = "smart_eta" /\ ret # NoRet /\ EtaDestination(call.destination) # None) =>
    LET dest == EtaDestination(call.destination)
        d == SubSeq([i \in 1..NumStops |->
                       haversine(call.user_lat, call.user_lng,
                                 BUS_STOPS[i].lat, BUS_STOPS[i].lng)], 1, NumStops)
        direct == {i \in NearestTo(d, 8) :
                     BUS_STOPS[i].id # dest.id /\ ShareRoute(BUS_STOPS[i], dest)}
        transfer == {i \in NearestTo(d, 5) :
                       \E m \in 1..NumStops :
                         /\ BUS_STOPS[m].id \notin {BUS_STOPS[i].id, dest.id}
                         /\ ShareRoute(BUS_STOPS[i], BUS_STOPS[m])
                         /\ ShareRoute(BUS_STOPS[m], dest)}
    IN /\ direct # {} =>
            /\ ret.code = 200
            /\ ret.pickup_stop.name = BUS_STOPS[NearestOf(d, direct)].name
            /\ ret.transfer = None
       /\ (direct = {} /\ transfer # {}) =>
            /\ ret.code = 200
            /\ ret.pickup_stop.name = BUS_STOPS[NearestOf(d, transfer)].name
            /\ ret.transfer # None
       /\ (direct = {} /\ transfer = {}) <=>
            (ret.code = 404 /\ ret.detail = "No bus route found")

(***************************************************************************)
(* Claims about computeEta's live bus, checked under SpecEta.               *)
(***************************************************************************)
\* the distance in millimetres from row r of the table to the pickup stop the
\* response names
ToPickup(r) ==
  haversine(db[r].latitude, db[r].longitude, ret.pickup_stop.lat, ret.pickup_stop.lng)

\* C21: when the table holds no bus on the chosen route, computeEta's wait
\* is half the route's frequency and it reports no live bus; when it holds
\* one, the reported live bus is a row of the table on the chosen route, no
\* row on that route is strictly closer to the pickup stop, and the wait is
\* that bus's live ETA.
C21_WaitFromNearestLiveBus ==
  (call.op = "smart_eta" /\ ret.code = 200) =>
    LET route_id == ret.bus_route.id
        live_buses == {r \in DOMAIN db : db[r].route_id = route_id}
    IN IF live_buses = {}
         THEN /\ ret.live_bus = None
              /\ 2 * ret.eta.wait_time_min = 10 * ret.bus_route.frequency_min
         ELSE /\ ret.live_bus # None
              /\ ret.live_bus.bus_reg \in live_buses
              /\ \A o \in live_buses : ToPickup(o) >= ToPickup(ret.live_bus.bus_reg)
              /\ ret.live_bus.distance_km = RoundDiv(ToPickup(ret.live_bus.bus_reg), 10000)
              /\ ret.eta.wait_time_min = ret.live_bus.live_eta_min

\* the table holds two buses on the chosen route, one of them strictly
\* farther from the pickup stop than the one reported
C21_Witness ==
  /\ call.op = "smart_eta"
  /\ ret.code = 200
  /\ ret.live_bus # None
  /\ \E o \in DOMAIN db :
        /\ db[o].route_id = ret.bus_route.id
        /\ ToPickup(o) > ToPickup(ret.live_bus.bus_reg)

(***************************************************************************)
(* Claims about the status of a live bus, checked under SpecStatus.         *)
(***************************************************************************)
\* the values the comments at LiveBusDB.status and StatusUpdate.status name
StatusValues == {"running", "delayed", "breakdown"}

\* C22: in every reachable table the status of each row is one of running,
\* delayed, breakdown, whatever status text the update-status calls carried.
C22_StatusIsOneOfThree ==
  \A r \in DOMAIN db : db[r].status \in StatusValues

(***************************************************************************)
(* Claims about the choice of a route, checked under SpecRoute.             *)
(***************************************************************************)
\* the route ids of the legs of the results of an answer, result by result
LegRoutes(answer) ==
  [i \in 1..Len(answer.results) |->
     IF answer.results[i].type = "direct"
       THEN <<answer.results[i].route.id>>
       ELSE <<answer.results[i].leg1_route.id, answer.results[i].transfer_stop,
              answer.results[i].leg2_route.id>>]

\* C25: in every transfer result of findConnections the route of leg 1 and
\* the route of leg 2 are two different routes.
C25_TransferLegsDiffer ==
  (call.op = "find_route" /\ ret.code = 200) =>
    \A k \in 1..Len(ret.results) :
      ret.results[k].type = "transfer" =>
        ret.results[k].leg1_route.id # ret.results[k].leg2_route.id

\* a transfer result at a stop that shares more than one route with the
\* origin and with the destination
C25_Witness ==
  /\ call.op = "find_route"
  /\ ret.code = 200
  /\ \E k \in 1..Len(ret.results) :
        /\ ret.results[k].type = "transfer"
        /\ Cardinality(RouteSet(StopNamed(ret.from))
                         \cap RouteSet(StopNamed(ret.results[k].transfer_stop))) > 1
        /\ Cardinality(RouteSet(StopNamed(ret.results[k].transfer_stop))
                         \cap RouteSet(StopNamed(ret.to))) > 1

\* C23: the leg routes findConnections returns for two stops are the same
\* in every evaluation, whatever order a set of route ids is iterated in,
\* also when two stops share more than one route.
C23_LegRoutesSameInEveryOrder ==
  (call.op = "find_route" /\ ret.code = 200) =>
    \A seed \in HashSeeds :
      LegRoutes(find_route_between(call.from_stop, call.to_stop, seed)) = LegRoutes(ret)

(***************************************************************************)
(* Claims about computeEta's pickup and destination, checked under SpecEta. *)
(***************************************************************************)
\* C24: in every successful computeEta result the pickup stop is another
\* stop than the destination stop, with and without a transfer.
C24_PickupIsNotDestination ==
  (call.op = "smart_eta" /\ ret.code = 200) =>
    ret.pickup_stop.name # ret.destination_stop.name

(***************************************************************************)
(* Claims about the steps of resolveStop, checked under SpecMatch.          *)
(***************************************************************************)
\* q is the start of a word of the lower-cased name of some stop
IsWordPrefix(q) ==
  \E i \in 1..NumStops : \E w \in Split(Lower(BUS_STOPS[i].name)) : StartsWith(w, q)

\* q is a part of the lower-cased name of some stop
IsInName(q) == \E i \in 1..NumStops : Contains(q, Lower(BUS_STOPS[i].name))

\* C26: resolveStop answers NotFound exactly when the trimmed lower-cased
\* text is no stop id, no lower-cased stop name, no alias key and no part of
\* a lower-cased stop name; a text that starts a word of a name is a part of
\* that name, so every stop found is the stop of step 1, 2 or 3 and the
\* word-prefix step decides nothing.
C26_NotFoundWhenNoStepMatches ==
  Resolved =>
    LET q == Strip(Lower(call.query)) IN
    /\ (ret.stop = None) <=>
         ~ \/ q \in StopIds
           \/ \E i \in 1..NumStops : Lower(BUS_STOPS[i].name) = q
           \/ q \in AliasKeys
           \/ IsInName(q)
    /\ IsWordPrefix(q) => IsInName(q)
    /\ ret.stop # None => ret.stop \in {ExactMatch(q), AliasMatch(q), PartialMatch(q)}

\* a text that is no id, name or alias key and starts a word of a stop's
\* name: the stop found is that of the substring step, another stop than
\* the first one with such a word
C26_Witness ==
  /\ Resolved
  /\ ret.stop # None
  /\ LET q == Strip(Lower(call.query)) IN
       /\ q # ""
       /\ ExactMatch(q) = None
       /\ AliasMatch(q) = None
       /\ IsWordPrefix(q)
       /\ ret.stop = PartialMatch(q)
       /\ ret.stop # WordStartMatch(q)

(***************************************************************************)
(* Claims about the end of a trip among calls served at the same time,      *)
(* checked under SpecConcurrent.                                            *)
(***************************************************************************)
\* thread w commits the INSERT of update-location or start-trip for r in
\* this step
InsertsRow(w, r) ==
  /\ sessions[w].pc = "loaded"
  /\ sessions[w].op \in {"update_location", "start_trip"}
  /\ sessions[w].req.bus_reg = r
  /\ sessions[w].bus = None
  /\ sessions'[w] = Idle

\* C27: a step that completes end-trip for a registration leaves the table
\* without a row for it; a registration without a row gets one only by the
\* commit of an update-location or a start-trip that adds it, never by the
\* commit of an update-passengers or update-status that had read the row
\* before it was deleted; and list-all answers with the rows of the table
\* as it is then, so an ended bus is not listed until it is added again.
C27_EndedBusStaysGone ==
  [][\A r \in ConcurrentRegs :
       /\ (call'.op = "end_trip" /\ call'.req.bus_reg = r /\ <<call, ret, pre>> # <<call', ret', pre'>>)
            => ~HasBus(db', r)
       /\ (~HasBus(db, r) /\ HasBus(db', r)) => \E w \in Workers : InsertsRow(w, r)
       /\ (call'.op = "get_live_buses" /\ sessions' = sessions)
            => (r \in {b.bus_reg : b \in ret'.buses} <=> HasBus(db, r))]_vars

\* update-passengers or update-status has failed on a row that was deleted
\* after the call read it, and the table has no row for the registration
C27_Witness ==
  /\ call.op \in {"update_passengers", "update_status"}
  /\ ret = ServerError
  /\ ~HasBus(db, call.req.bus_reg)
  /\ ~HasBus(pre, call.req.bus_reg)

====
